---- MODULE Spec2Model ----
(***************************************************************************)
(* Streaming transcript reconciliation (src/hooks/useASR.ts, the revision  *)
(* with adaptive endpointing, lines 563-1373) and reference/hypothesis     *)
(* alignment scoring (src/lib/scoring.ts, lines 1-222).                    *)
(*                                                                         *)
(* A JavaScript string is modelled as a sequence of one-character strings, *)
(* so that trimming, lower-casing, regular-expression replacement,         *)
(* splitting, slicing and substring search are computed character by       *)
(* character the way the code computes them.                               *)
(***************************************************************************)
EXTENDS Integers, Sequences, FiniteSets, TLC

VARIABLES
    \* ---- the hook useASR: refs and React state
    transcriptRef,        \* committed transcript (mirrored by the state transcript)
    wordConfidencesRef,   \* one confidence per committed word (mirrored likewise)
    partialRef,           \* pending partial, the text pauseASR commits
    partialTranscript,    \* React state: the partial exposed for display
    lastFinalRef, lastPartialRef, recentFinalsRef,
    pausedRef, eofSentRef, inUtteranceRef,
    wsRef,                \* "none", or "open" for a socket created by connectWs
    connectingRef,        \* ensureWsOpen is awaiting its token
    startPending,         \* startASR is awaiting its token
    processorRef,         \* the audio graph exists and delivers frames
    msgCount,             \* recognition messages delivered so far (bounded)
    hist,                 \* history: the operation performed by the last step
    \* ---- pure-function harness for mergeTranscript(prev, next)
    mPrev, mNext, mOut, mPhase,
    \* ---- pure-function harness for diffWords(reference, hypothesis, confidences)
    sRef, sHyp, sConf, sOut, sPhase,
    \* ---- pure-function harness for isLoopingFinal(incoming, recent)
    lIncoming, lRecent, lOut, lPhase,
    \* ---- pure-function harness for pickPhonemeHint(mismatches)
    hMismatches, hOut, hPhase,
    \* ---- pure-function harness for normalizeConfidence(value)
    cIn, cOut, cPhase,
    \* ---- pure-function harness for extractWordConfidences(words, fallbackText)
    eWords, eText, eOut, ePhase,
    \* ---- the hook useASR: sockets, the token awaits and the endpointing counters
    sockets,              \* readyState of every WebSocket created so far, oldest first
    wsId,                 \* the socket wsRef holds: its place in sockets, 0 for null
    speechFramesRef, silenceFramesRef,
    utteranceStartedAtRef, \* 0, or 1 for the time stamp of a started utterance
    frameAwaiting,        \* an onaudioprocess call is suspended at await ensureWsOpen()
    audioClosing,         \* startASR is awaiting audioCtx.close() of the old graph
    stopped,              \* history: stopASR returned and startASR was not called since
    silentRun             \* history: silent frames in a row in the utterance in progress

mergeVars == <<mPrev, mNext, mOut, mPhase>>
scoreVars == <<sRef, sHyp, sConf, sOut, sPhase>>
hookVars == <<transcriptRef, wordConfidencesRef, partialRef, partialTranscript,
              lastFinalRef, lastPartialRef, recentFinalsRef, pausedRef, eofSentRef,
              inUtteranceRef, wsRef, connectingRef, startPending, processorRef,
              msgCount, hist>>
loopVars == <<lIncoming, lRecent, lOut, lPhase>>
hintVars == <<hMismatches, hOut, hPhase>>
confVars == <<cIn, cOut, cPhase>>
extractVars == <<eWords, eText, eOut, ePhase>>
fnVars == <<hintVars, confVars, extractVars>>
connVars == <<sockets, wsId, speechFramesRef, silenceFramesRef, utteranceStartedAtRef,
              frameAwaiting, audioClosing, stopped, silentRun>>
vars == <<hookVars, mergeVars, scoreVars, loopVars, fnVars, connVars>>

-----------------------------------------------------------------------------
(* Characters *)

UpperLetters == <<"A", "B", "C", "D", "E", "F", "G", "H", "I", "J", "K", "L", "M",
                  "N", "O", "P", "Q", "R", "S", "T", "U", "V", "W", "X", "Y", "Z">>
LowerLetters == <<"a", "b", "c", "d", "e", "f", "g", "h", "i", "j", "k", "l", "m",
                  "n", "o", "p", "q", "r", "s", "t", "u", "v", "w", "x", "y", "z">>
Digits == {"0", "1", "2", "3", "4", "5", "6", "7", "8", "9"}

Letters == DOMAIN UpperLetters
UpperSet == {UpperLetters[k] : k \in Letters}
LowerSet == {LowerLetters[k] : k \in Letters}
LowerOf == [c \in UpperSet |-> LowerLetters[CHOOSE k \in Letters : UpperLetters[k] = c]]

IsUpper(c) == c \in UpperSet
IsLower(c) == c \in LowerSet

\* String.prototype.toLowerCase on one character
toLowerChar(c) == IF IsUpper(c) THEN LowerOf[c] ELSE c

\* the class \s of the regular expressions
IsSpace(c) == c \in {" ", "\t", "\n"}

\* a character that /[^a-z0-9\s]/gi leaves alone
IsAlnumOrSpace(c) == IsLower(c) \/ IsUpper(c) \/ c \in Digits \/ IsSpace(c)

-----------------------------------------------------------------------------
(* String primitives *)

toLowerCase(s) == [k \in 1..Len(s) |-> toLowerChar(s[k])]

\* s.slice(from) with from >= 0 counted in characters dropped from the front
DropFirst(s, n) == IF n >= Len(s) THEN <<>> ELSE SubSeq(s, n + 1, Len(s))
\* s.slice(0, n)
TakeFirst(s, n) == IF n >= Len(s) THEN s ELSE SubSeq(s, 1, n)
\* s.slice(-n) for n > 0
TakeLast(s, n) == IF n >= Len(s) THEN s ELSE SubSeq(s, Len(s) - n + 1, Len(s))

\* String.prototype.trim
RECURSIVE TrimStart(_)
TrimStart(s) ==
    IF s # <<>> /\ IsSpace(Head(s)) THEN TrimStart(Tail(s)) ELSE s

RECURSIVE TrimEnd(_)
TrimEnd(s) ==
    IF s # <<>> /\ IsSpace(s[Len(s)]) THEN TrimEnd(SubSeq(s, 1, Len(s) - 1)) ELSE s

trim(s) == TrimEnd(TrimStart(s))

\* String.prototype.startsWith
startsWith(s, p) == Len(p) <= Len(s) /\ SubSeq(s, 1, Len(p)) = p

\* String.prototype.includes
includes(s, p) ==
    \E k \in 0..(Len(s) - Len(p)) : SubSeq(s, k + 1, k + Len(p)) = p

\* .replace(/[^a-z0-9\s]/gi, " ")
ReplaceNonAlnum(s) ==
    [k \in 1..Len(s) |-> IF IsAlnumOrSpace(s[k]) THEN s[k] ELSE " "]

\* .replace(/\s+/g, " "): every maximal run of whitespace becomes one space
RECURSIVE CollapseSpaces(_)
CollapseSpaces(s) ==
    IF s = <<>> THEN <<>>
    ELSE IF IsSpace(Head(s))
         THEN <<" ">> \o CollapseSpaces(TrimStart(Tail(s)))
         ELSE <<Head(s)>> \o CollapseSpaces(Tail(s))

\* the position of the first space of s, or 0
RECURSIVE IndexOfSpace(_, _)
IndexOfSpace(s, k) ==
    IF k > Len(s) THEN 0
    ELSE IF s[k] = " " THEN k ELSE IndexOfSpace(s, k + 1)

\* String.prototype.split(" ")
RECURSIVE SplitOnSpace(_)
SplitOnSpace(s) ==
    LET p == IndexOfSpace(s, 1) IN
    IF p = 0 THEN <<s>>
    ELSE <<SubSeq(s, 1, p - 1)>> \o SplitOnSpace(DropFirst(s, p))

-----------------------------------------------------------------------------
(* Normalization primitives of the reconciler *)

normalizeText(s) == trim(CollapseSpaces(ReplaceNonAlnum(toLowerCase(s))))

tokenize(s) ==
    LET normalized == normalizeText(s) IN
    IF normalized # <<>> THEN SplitOnSpace(normalized) ELSE <<>>

isSameNormalized(a, b) == normalizeText(a) = normalizeText(b)

containsNormalized(container, content) ==
    LET a == normalizeText(container)
        b == normalizeText(content)
    IN  IF a = <<>> \/ b = <<>> THEN FALSE ELSE includes(a, b)

-----------------------------------------------------------------------------
(* Transcript merge *)

\* variant: the loop runs upwards and stops at the smallest overlap
OverlapFrom_Shortest(lowerA, lowerB, i) ==
    LET fits == {k \in 1..i : k <= Len(lowerA) /\ k <= Len(lowerB)
                                /\ SubSeq(lowerA, Len(lowerA) - k + 1, Len(lowerA))
                                       = SubSeq(lowerB, 1, k)}
    IN  IF fits = {} THEN 0 ELSE CHOOSE k \in fits : \A j \in fits : k <= j

\* the loop "for (let i = max; i > 0; i--)": the largest i in 1..max with
\* lowerA.slice(-i) === lowerB.slice(0, i), or 0
RECURSIVE OverlapFrom(_, _, _)
OverlapFrom(lowerA, lowerB, i) ==
    IF i <= 0 THEN 0
    ELSE IF TakeLast(lowerA, i) = TakeFirst(lowerB, i) THEN i
         ELSE OverlapFrom(lowerA, lowerB, i - 1)

Min(x, y) == IF x <= y THEN x ELSE y
Max(x, y) == IF x >= y THEN x ELSE y

\* mutant: next is not trimmed
mergeTranscript_UntrimmedNext(prev, next) ==
    LET a == trim(prev)
        b == next
    IN  IF a = <<>> THEN b
        ELSE IF b = <<>> THEN a
        ELSE IF a = b THEN a
        ELSE IF containsNormalized(a, b) THEN a
        ELSE IF containsNormalized(b, a) THEN b
        ELSE IF startsWith(b, a) THEN b
        ELSE IF startsWith(a, b) THEN a
        ELSE LET lowerA == toLowerCase(a)
                 lowerB == toLowerCase(b)
                 overlap == OverlapFrom(lowerA, lowerB, Min(Len(lowerA), Len(lowerB)))
             IN  IF overlap > 0 THEN a \o DropFirst(b, overlap)
                 ELSE a \o <<" ">> \o b

\* mutant: the rule "incoming already contained in previous" is missing
mergeTranscript_NoAbsorb(prev, next) ==
    LET a == trim(prev)
        b == trim(next)
    IN  IF a = <<>> THEN b
        ELSE IF b = <<>> THEN a
        ELSE IF a = b THEN a
        ELSE IF containsNormalized(b, a) THEN b
        ELSE IF startsWith(b, a) THEN b
        ELSE IF startsWith(a, b) THEN a
        ELSE LET lowerA == toLowerCase(a)
                 lowerB == toLowerCase(b)
                 overlap == OverlapFrom(lowerA, lowerB, Min(Len(lowerA), Len(lowerB)))
             IN  IF overlap > 0 THEN a \o DropFirst(b, overlap)
                 ELSE a \o <<" ">> \o b

\* mutant: a contained incoming fragment replaces the previous transcript
mergeTranscript_AdoptIncoming(prev, next) ==
    LET a == trim(prev)
        b == trim(next)
    IN  IF a = <<>> THEN b
        ELSE IF b = <<>> THEN a
        ELSE IF a = b THEN a
        ELSE IF containsNormalized(a, b) THEN b
        ELSE IF containsNormalized(b, a) THEN b
        ELSE IF startsWith(b, a) THEN b
        ELSE IF startsWith(a, b) THEN a
        ELSE LET lowerA == toLowerCase(a)
                 lowerB == toLowerCase(b)
                 overlap == OverlapFrom(lowerA, lowerB, Min(Len(lowerA), Len(lowerB)))
             IN  IF overlap > 0 THEN a \o DropFirst(b, overlap)
                 ELSE a \o <<" ">> \o b

\* variant: previous is kept when the incoming text contains it
mergeTranscript_KeepsContained(prev, next) ==
    LET a == trim(prev)
        b == trim(next)
    IN  IF a = <<>> THEN b
        ELSE IF b = <<>> THEN a
        ELSE IF a = b THEN a
        ELSE IF containsNormalized(a, b) THEN a
        ELSE IF containsNormalized(b, a) THEN a
        ELSE IF startsWith(b, a) THEN b
        ELSE IF startsWith(a, b) THEN a
        ELSE LET lowerA == toLowerCase(a)
                 lowerB == toLowerCase(b)
                 overlap == OverlapFrom(lowerA, lowerB, Min(Len(lowerA), Len(lowerB)))
             IN  IF overlap > 0 THEN a \o DropFirst(b, overlap)
                 ELSE a \o <<" ">> \o b

mergeTranscript(prev, next) ==
    LET a == trim(prev)
        b == trim(next)
    IN  IF a = <<>> THEN b
        ELSE IF b = <<>> THEN a
        ELSE IF a = b THEN a
        ELSE IF containsNormalized(a, b) THEN a
        ELSE IF containsNormalized(b, a) THEN b
        ELSE IF startsWith(b, a) THEN b
        ELSE IF startsWith(a, b) THEN a
        ELSE LET lowerA == toLowerCase(a)
                 lowerB == toLowerCase(b)
                 overlap == OverlapFrom(lowerA, lowerB, Min(Len(lowerA), Len(lowerB)))
             IN  IF overlap > 0 THEN a \o DropFirst(b, overlap)
                 ELSE a \o <<" ">> \o b

-----------------------------------------------------------------------------
(* Confidence values *)

\* A confidence is null, or a number in fixed point: Num(v) stands for the
\* real v / ConfScale, so Num(10000) is 1.0 and Num(950000) is 95.
ConfScale == 10000
Null == <<"null">>
\* the other values that are not a number, and NaN
Undefined == <<"undefined">>
NaN == <<"nan">>
NotANumber == <<"string">>
Num(v) == <<"num", v>>
IsNum(c) == c[1] = "num"

Clamp(lo, hi, x) == Max(lo, Min(hi, x))

\* scoring.ts normalizeConfidence
scoreNormalizeConfidence(value) ==
    IF ~IsNum(value) THEN Null
    ELSE IF value[2] > ConfScale THEN Num(Clamp(0, ConfScale, value[2] \div 100))
    ELSE Num(Clamp(0, ConfScale, value[2]))

\* hypothesisConfidences[hi]: indexing past the end yields undefined
ConfAt(confidences, hi) ==
    IF hi + 1 \in DOMAIN confidences THEN confidences[hi + 1] ELSE Null

-----------------------------------------------------------------------------
(* Word confidences of the reconciler *)

\* variant: a confidence that is not a number counts as the score 0
normalizeConfidence_NullAsZero(value) ==
    IF ~IsNum(value) THEN Num(0)
    ELSE IF value[2] > ConfScale THEN Num(Clamp(0, ConfScale, value[2] \div 100))
    ELSE Num(Clamp(0, ConfScale, value[2]))

\* useASR.ts normalizeConfidence
normalizeConfidence(value) ==
    IF ~IsNum(value) THEN Null
    ELSE IF value[2] > ConfScale THEN Num(Clamp(0, ConfScale, value[2] \div 100))
    ELSE Num(Clamp(0, ConfScale, value[2]))

\* tokenize(text).map((word) => ({ word, confidence: null }))
NullScored(text) ==
    LET words == tokenize(text)
    IN  [k \in 1..Len(words) |-> [word |-> words[k], confidence |-> Null]]

\* the loop of extractWordConfidences over the entries of words
RECURSIVE ExtractEntries(_)
ExtractEntries(items) ==
    IF items = <<>> THEN <<>>
    ELSE LET item == Head(items)
             \* item.word ?? item.text ?? ""
             tokenText == IF "word" \in DOMAIN item THEN item.word
                          ELSE IF "text" \in DOMAIN item THEN item.text
                          ELSE <<>>
             parts == tokenize(tokenText)
             confidence == normalizeConfidence(item.confidence)
         IN  [k \in 1..Len(parts) |-> [word |-> parts[k], confidence |-> confidence]]
                 \o ExtractEntries(Tail(items))

\* variant: the entries of a non-empty words array are returned even when
\* they yield no token
extractWordConfidences_NoFallback(words, fallbackText) ==
    IF ~words.present \/ Len(words.list) = 0 THEN NullScored(fallbackText)
    ELSE ExtractEntries(words.list)

\* words is [present |-> FALSE] when the message carries no array
extractWordConfidences(words, fallbackText) ==
    IF ~words.present \/ Len(words.list) = 0 THEN NullScored(fallbackText)
    ELSE LET output == ExtractEntries(words.list)
         IN  IF Len(output) > 0 THEN output ELSE NullScored(fallbackText)

alignConfidences(length, confidences) ==
    IF Len(confidences) = length THEN confidences
    ELSE IF Len(confidences) > length THEN SubSeq(confidences, 1, length)
    ELSE confidences \o [k \in 1..(length - Len(confidences)) |-> Null]

isWordArrayEqual(a, b) == a = b

containsWordSequence(container, content) ==
    IF Len(container) = 0 \/ Len(content) = 0 \/ Len(content) > Len(container)
    THEN FALSE
    ELSE \E start \in 0..(Len(container) - Len(content)) :
            isWordArrayEqual(SubSeq(container, start + 1, start + Len(content)), content)

\* the loop "for (let size = max; size > 0; size--)" over word arrays
RECURSIVE WordOverlapFrom(_, _, _)
WordOverlapFrom(prevWords, nextWords, size) ==
    IF size <= 0 THEN 0
    ELSE IF isWordArrayEqual(TakeLast(prevWords, size), TakeFirst(nextWords, size))
         THEN size
         ELSE WordOverlapFrom(prevWords, nextWords, size - 1)

mergeWordConfidences(previousTranscript, previousConfidences, incoming) ==
    LET prevWords == tokenize(previousTranscript)
        prevConfs == alignConfidences(Len(prevWords), previousConfidences)
        nextWords == [k \in 1..Len(incoming) |-> incoming[k].word]
        nextConfs == [k \in 1..Len(incoming) |-> incoming[k].confidence]
    IN  IF Len(prevWords) = 0 THEN nextConfs
        ELSE IF Len(nextWords) = 0 THEN prevConfs
        ELSE IF containsWordSequence(prevWords, nextWords) THEN prevConfs
        ELSE IF containsWordSequence(nextWords, prevWords) THEN nextConfs
        ELSE LET overlap == WordOverlapFrom(prevWords, nextWords,
                                            Min(Len(prevWords), Len(nextWords)))
             IN  IF overlap > 0 THEN prevConfs \o DropFirst(nextConfs, overlap)
                 ELSE prevConfs \o nextConfs

-----------------------------------------------------------------------------
(* Repeat detection *)

\* s.split(" ").filter(Boolean)
SplitWords(s) == SelectSeq(SplitOnSpace(s), LAMBDA w : w # <<>>)

SeqToSet(s) == {s[k] : k \in DOMAIN s}

\* variant: the Jaccard similarity common / |A \cup B|
wordSimilarity_Jaccard(a, b) ==
    LET setA == SeqToSet(SplitWords(a))
        setB == SeqToSet(SplitWords(b))
    IN  IF setA = {} \/ setB = {} THEN <<0, 1>>
        ELSE <<Cardinality(setA \cap setB), Cardinality(setA \cup setB)>>

\* wordSimilarity returns common / max(|A|, |B|), or 0 when either side has
\* no word; the quotient is kept as <<numerator, denominator>> and compared
\* exactly
wordSimilarity(a, b) ==
    LET setA == SeqToSet(SplitWords(a))
        setB == SeqToSet(SplitWords(b))
    IN  IF setA = {} \/ setB = {} THEN <<0, 1>>
        ELSE <<Cardinality(setA \cap setB), Max(Cardinality(setA), Cardinality(setB))>>

\* q >= num / den
AtLeast(q, num, den) == q[1] * den >= num * q[2]
\* q > num / den
Above(q, num, den) == q[1] * den > num * q[2]

RecentFinalsCap == 12
LoopMinWords == 8
RepeatMinWords == 6
TailChars == 240
TailGuardChars == 400

\* variant: nothing is evicted
pushRecentFinal_NoEvict(target, text) ==
    LET n == normalizeText(text)
    IN  IF n = <<>> THEN target ELSE Append(target, n)

pushRecentFinal(target, text) ==
    LET n == normalizeText(text)
    IN  IF n = <<>> THEN target
        ELSE LET pushed == Append(target, n)
             IN  IF Len(pushed) > RecentFinalsCap THEN Tail(pushed) ELSE pushed

isLoopingFinal(incoming, recent) ==
    LET n == normalizeText(incoming)
    IN  IF n = <<>> THEN FALSE
        ELSE IF Len(SplitWords(n)) < LoopMinWords THEN FALSE
        ELSE \E i \in DOMAIN recent : AtLeast(wordSimilarity(n, recent[i]), 9, 10)

\* variant: only the substring tests, the word-overlap rule is missing
isLikelyRepeatedSegment_SubstringOnly(existing, incoming) ==
    LET current == normalizeText(existing)
        next == normalizeText(incoming)
    IN  IF current = <<>> \/ next = <<>> THEN FALSE
        ELSE IF includes(current, next) THEN TRUE
        ELSE includes(TakeLast(current, Max(TailChars, Len(next) * 2)), next)

isLikelyRepeatedSegment(existing, incoming) ==
    LET current == normalizeText(existing)
        next == normalizeText(incoming)
    IN  IF current = <<>> \/ next = <<>> THEN FALSE
        ELSE IF includes(current, next) THEN TRUE
        ELSE LET tail == TakeLast(current, Max(TailChars, Len(next) * 2))
                 nextWords == SeqToSet(SplitWords(next))
                 tailWords == SeqToSet(SplitWords(tail))
             IN  IF includes(tail, next) THEN TRUE
                 ELSE IF Cardinality(nextWords) < RepeatMinWords THEN FALSE
                 ELSE Cardinality(nextWords \cap tailWords) * 100
                          >= 85 * Cardinality(nextWords)

-----------------------------------------------------------------------------
(* Tokenization of the scorer *)

\* a character that /[^\w\s']/g leaves alone
IsWordCharOrSpace(c) == IsAlnumOrSpace(c) \/ c = "_" \/ c = "'"

ReplaceNonWord(s) ==
    [k \in 1..Len(s) |-> IF IsWordCharOrSpace(s[k]) THEN s[k] ELSE " "]

\* .split(/\s+/).filter(Boolean)
RECURSIVE SplitOnSpaces(_)
SplitOnSpaces(s) ==
    LET t == TrimStart(s)
        p == IF t = <<>> THEN 0 ELSE IndexOfSpace(CollapseSpaces(t), 1)
    IN  IF t = <<>> THEN <<>>
        ELSE IF p = 0 THEN <<t>>
        ELSE <<SubSeq(t, 1, p - 1)>> \o SplitOnSpaces(DropFirst(t, p))

scoreTokenize(s) == SplitOnSpaces(ReplaceNonWord(toLowerCase(s)))

-----------------------------------------------------------------------------
(* Edit-distance matrix and backtrace *)

Min3(x, y, z) == Min(x, Min(y, z))

\* mutant: a substitution costs 2 (an insertion plus a deletion)
RECURSIVE DpRow_SubCost2(_, _, _, _, _)
DpRow_SubCost2(prevRow, refTok, hyp, j, acc) ==
    IF j > Len(hyp) THEN acc
    ELSE LET cost == IF refTok = hyp[j] THEN 0 ELSE 2
             cell == Min3(prevRow[j + 1] + 1, acc[j] + 1, prevRow[j] + cost)
         IN  DpRow_SubCost2(prevRow, refTok, hyp, j + 1, Append(acc, cell))

\* row i >= 1 of dp from row i - 1; acc holds dp[i][0 .. j-1]
RECURSIVE DpRow(_, _, _, _, _)
DpRow(prevRow, refTok, hyp, j, acc) ==
    IF j > Len(hyp) THEN acc
    ELSE LET cost == IF refTok = hyp[j] THEN 0 ELSE 1
             cell == Min3(prevRow[j + 1] + 1, acc[j] + 1, prevRow[j] + cost)
         IN  DpRow(prevRow, refTok, hyp, j + 1, Append(acc, cell))

\* rows 0 .. i of dp; row i is at index i + 1 and dp[i][j] at index j + 1 of it
RECURSIVE DpRows(_, _, _)
DpRows(ref, hyp, i) ==
    IF i = 0 THEN << [j \in 1..(Len(hyp) + 1) |-> j - 1] >>
    ELSE LET above == DpRows(ref, hyp, i - 1)
         IN  Append(above, DpRow(above[i], ref[i], hyp, 1, <<i>>))

DpMatrix(ref, hyp) == DpRows(ref, hyp, Len(ref))

\* mutant: the labels of the horizontal and the vertical move are swapped
RECURSIVE Backtrace_SwappedInsDel(_, _, _, _, _)
Backtrace_SwappedInsDel(dp, ref, hyp, i, j) ==
    IF ~(i > 0 \/ j > 0) THEN <<>>
    ELSE IF i > 0 /\ j > 0 /\ ref[i] = hyp[j] /\ dp[i + 1][j + 1] = dp[i][j]
         THEN <<"match">> \o Backtrace_SwappedInsDel(dp, ref, hyp, i - 1, j - 1)
    ELSE IF i > 0 /\ j > 0 /\ dp[i + 1][j + 1] = dp[i][j] + 1
         THEN <<"sub">> \o Backtrace_SwappedInsDel(dp, ref, hyp, i - 1, j - 1)
    ELSE IF j > 0 /\ dp[i + 1][j + 1] = dp[i + 1][j] + 1
         THEN <<"del">> \o Backtrace_SwappedInsDel(dp, ref, hyp, i, j - 1)
    ELSE <<"ins">> \o Backtrace_SwappedInsDel(dp, ref, hyp, i - 1, j)

\* variant: a diagonal move of unchanged cost is a match whatever the tokens
RECURSIVE Backtrace_MatchByCost(_, _, _, _, _)
Backtrace_MatchByCost(dp, ref, hyp, i, j) ==
    IF ~(i > 0 \/ j > 0) THEN <<>>
    ELSE IF i > 0 /\ j > 0 /\ dp[i + 1][j + 1] = dp[i][j]
         THEN <<"match">> \o Backtrace_MatchByCost(dp, ref, hyp, i - 1, j - 1)
    ELSE IF i > 0 /\ j > 0 /\ dp[i + 1][j + 1] = dp[i][j] + 1
         THEN <<"sub">> \o Backtrace_MatchByCost(dp, ref, hyp, i - 1, j - 1)
    ELSE IF j > 0 /\ dp[i + 1][j + 1] = dp[i + 1][j] + 1
         THEN <<"ins">> \o Backtrace_MatchByCost(dp, ref, hyp, i, j - 1)
    ELSE <<"del">> \o Backtrace_MatchByCost(dp, ref, hyp, i - 1, j)

\* the while loop: the operations in the order they are pushed (last first)
RECURSIVE Backtrace(_, _, _, _, _)
Backtrace(dp, ref, hyp, i, j) ==
    IF ~(i > 0 \/ j > 0) THEN <<>>
    ELSE IF i > 0 /\ j > 0 /\ ref[i] = hyp[j] /\ dp[i + 1][j + 1] = dp[i][j]
         THEN <<"match">> \o Backtrace(dp, ref, hyp, i - 1, j - 1)
    ELSE IF i > 0 /\ j > 0 /\ dp[i + 1][j + 1] = dp[i][j] + 1
         THEN <<"sub">> \o Backtrace(dp, ref, hyp, i - 1, j - 1)
    ELSE IF j > 0 /\ dp[i + 1][j + 1] = dp[i + 1][j] + 1
         THEN <<"ins">> \o Backtrace(dp, ref, hyp, i, j - 1)
    ELSE <<"del">> \o Backtrace(dp, ref, hyp, i - 1, j)

Reverse(s) == [k \in 1..Len(s) |-> s[Len(s) - k + 1]]

EditOps(ref, hyp) ==
    Reverse(Backtrace(DpMatrix(ref, hyp), ref, hyp, Len(ref), Len(hyp)))

\* mutant: an inserted word is pushed with the status of a substitution
RECURSIVE WalkOps_InsAsMiss(_, _, _, _, _)
WalkOps_InsAsMiss(ops, ref, hyp, confidences, acc) ==
    IF ops = <<>> THEN acc
    ELSE LET op == Head(ops)
             r == IF acc.ri + 1 \in DOMAIN ref THEN ref[acc.ri + 1] ELSE <<>>
             h == IF acc.hi + 1 \in DOMAIN hyp THEN hyp[acc.hi + 1] ELSE <<>>
             next ==
                 IF op = "match" THEN
                     [acc EXCEPT !.ri = @ + 1, !.hi = @ + 1, !.matches = @ + 1,
                         !.tokens = Append(@, [word |-> h, status |-> "match",
                             confidence |->
                                 scoreNormalizeConfidence(ConfAt(confidences, acc.hi))])]
                 ELSE IF op = "sub" THEN
                     [acc EXCEPT !.ri = @ + 1, !.hi = @ + 1, !.substitutions = @ + 1,
                         !.tokens = Append(@, [word |-> h, status |-> "miss",
                                               confidence |-> Null]),
                         !.mismatches = Append(@, [ref |-> r, hyp |-> h])]
                 ELSE IF op = "ins" THEN
                     [acc EXCEPT !.hi = @ + 1, !.extras = @ + 1,
                         !.tokens = Append(@, [word |-> h, status |-> "miss",
                                               confidence |-> Null]),
                         !.mismatches = Append(@, [hyp |-> h])]
                 ELSE
                     [acc EXCEPT !.ri = @ + 1, !.deletions = @ + 1,
                         !.mismatches = Append(@, [ref |-> r])]
         IN  WalkOps_InsAsMiss(Tail(ops), ref, hyp, confidences, next)

\* variant: a matched word is given the confidence at its reference position
RECURSIVE WalkOps_ConfidenceAtRef(_, _, _, _, _)
WalkOps_ConfidenceAtRef(ops, ref, hyp, confidences, acc) ==
    IF ops = <<>> THEN acc
    ELSE LET op == Head(ops)
             r == IF acc.ri + 1 \in DOMAIN ref THEN ref[acc.ri + 1] ELSE <<>>
             h == IF acc.hi + 1 \in DOMAIN hyp THEN hyp[acc.hi + 1] ELSE <<>>
             next ==
                 IF op = "match" THEN
                     [acc EXCEPT !.ri = @ + 1, !.hi = @ + 1, !.matches = @ + 1,
                         !.tokens = Append(@, [word |-> h, status |-> "match",
                             confidence |->
                                 scoreNormalizeConfidence(ConfAt(confidences, acc.ri))])]
                 ELSE IF op = "sub" THEN
                     [acc EXCEPT !.ri = @ + 1, !.hi = @ + 1, !.substitutions = @ + 1,
                         !.tokens = Append(@, [word |-> h, status |-> "miss",
                                               confidence |-> Null]),
                         !.mismatches = Append(@, [ref |-> r, hyp |-> h])]
                 ELSE IF op = "ins" THEN
                     [acc EXCEPT !.hi = @ + 1, !.extras = @ + 1,
                         !.tokens = Append(@, [word |-> h, status |-> "extra",
                                               confidence |-> Null]),
                         !.mismatches = Append(@, [hyp |-> h])]
                 ELSE
                     [acc EXCEPT !.ri = @ + 1, !.deletions = @ + 1,
                         !.mismatches = Append(@, [ref |-> r])]
         IN  WalkOps_ConfidenceAtRef(Tail(ops), ref, hyp, confidences, next)

\* the loop over ops: acc carries ri, hi, tokens, mismatches and the counters
RECURSIVE WalkOps(_, _, _, _, _)
WalkOps(ops, ref, hyp, confidences, acc) ==
    IF ops = <<>> THEN acc
    ELSE LET op == Head(ops)
             r == IF acc.ri + 1 \in DOMAIN ref THEN ref[acc.ri + 1] ELSE <<>>
             h == IF acc.hi + 1 \in DOMAIN hyp THEN hyp[acc.hi + 1] ELSE <<>>
             next ==
                 IF op = "match" THEN
                     [acc EXCEPT !.ri = @ + 1, !.hi = @ + 1, !.matches = @ + 1,
                         !.tokens = Append(@, [word |-> h, status |-> "match",
                             confidence |->
                                 scoreNormalizeConfidence(ConfAt(confidences, acc.hi))])]
                 ELSE IF op = "sub" THEN
                     [acc EXCEPT !.ri = @ + 1, !.hi = @ + 1, !.substitutions = @ + 1,
                         !.tokens = Append(@, [word |-> h, status |-> "miss",
                                               confidence |-> Null]),
                         !.mismatches = Append(@, [ref |-> r, hyp |-> h])]
                 ELSE IF op = "ins" THEN
                     [acc EXCEPT !.hi = @ + 1, !.extras = @ + 1,
                         !.tokens = Append(@, [word |-> h, status |-> "extra",
                                               confidence |-> Null]),
                         !.mismatches = Append(@, [hyp |-> h])]
                 ELSE
                     [acc EXCEPT !.ri = @ + 1, !.deletions = @ + 1,
                         !.mismatches = Append(@, [ref |-> r])]
         IN  WalkOps(Tail(ops), ref, hyp, confidences, next)

-----------------------------------------------------------------------------
(* Accuracy score, in fixed point *)

\* Rates and confidences are integers standing for x / 10000; the accuracy is
\* an integer standing for x / 100 points, so 10000 is the score 100.
\* Math.pow(x, e) is tabulated for x = 0.00, 0.01, ..., 1.00 (rounded to
\* 1/10000) and read at x rounded to the nearest hundredth; the thresholds
\* (0.88, 0.9, 0.94, 0.02, 0.08, 0.18) are compared exactly.
RateScale == 10000
FullScore == 10000

Pow135Table ==
  <<
    0, 20, 51, 88, 130, 175, 224, 276, 331, 387, 447, 508,
    571, 637, 704, 772, 842, 914, 988, 1062, 1139, 1216, 1295, 1375,
    1456, 1539, 1623, 1707, 1793, 1880, 1968, 2057, 2148, 2239, 2331, 2424,
    2518, 2613, 2708, 2805, 2903, 3001, 3100, 3200, 3301, 3403, 3505, 3609,
    3713, 3817, 3923, 4029, 4136, 4244, 4352, 4462, 4571, 4682, 4793, 4905,
    5018, 5131, 5245, 5359, 5474, 5590, 5707, 5824, 5941, 6060, 6178, 6298,
    6418, 6539, 6660, 6782, 6904, 7027, 7150, 7274, 7399, 7524, 7650, 7776,
    7903, 8030, 8158, 8286, 8415, 8544, 8674, 8805, 8935, 9067, 9199, 9331,
    9464, 9597, 9731, 9865, 10000
  >>

Pow12Table ==
  <<
    0, 40, 91, 149, 210, 275, 342, 411, 483, 556, 631, 707,
    785, 864, 945, 1026, 1109, 1193, 1277, 1363, 1450, 1537, 1625, 1714,
    1804, 1895, 1986, 2078, 2171, 2264, 2358, 2453, 2548, 2644, 2740, 2837,
    2935, 3033, 3131, 3231, 3330, 3430, 3531, 3632, 3734, 3836, 3938, 4041,
    4145, 4248, 4353, 4457, 4563, 4668, 4774, 4880, 4987, 5094, 5201, 5309,
    5417, 5526, 5635, 5744, 5854, 5963, 6074, 6184, 6295, 6406, 6518, 6630,
    6742, 6855, 6968, 7081, 7194, 7308, 7422, 7536, 7651, 7766, 7881, 7996,
    8112, 8228, 8344, 8461, 8578, 8695, 8812, 8930, 9048, 9166, 9284, 9403,
    9522, 9641, 9760, 9880, 10000
  >>

Pow17Table ==
  <<
    0, 4, 13, 26, 42, 61, 84, 109, 137, 167, 200, 235,
    272, 312, 354, 398, 444, 492, 542, 594, 648, 704, 762, 822,
    884, 947, 1013, 1080, 1149, 1219, 1292, 1366, 1441, 1519, 1598, 1678,
    1761, 1845, 1930, 2017, 2106, 2197, 2288, 2382, 2477, 2573, 2671, 2771,
    2872, 2974, 3078, 3183, 3290, 3398, 3508, 3619, 3732, 3846, 3961, 4078,
    4196, 4316, 4437, 4559, 4683, 4808, 4934, 5062, 5191, 5322, 5453, 5586,
    5721, 5857, 5994, 6132, 6272, 6413, 6555, 6698, 6843, 6989, 7136, 7285,
    7435, 7586, 7738, 7892, 8047, 8203, 8360, 8519, 8678, 8839, 9002, 9165,
    9330, 9495, 9662, 9831, 10000
  >>

PowAt(table, x) == table[((x + 50) \div 100) + 1]

RECURSIVE SumSeq(_)
SumSeq(s) == IF s = <<>> THEN 0 ELSE Head(s) + SumSeq(Tail(s))

\* lines 114-143 of diffWords
computeAccuracy(walk, refLen, hypLen) ==
    LET referenceTotal == IF refLen = 0 THEN 1 ELSE refLen
        spokenTotal == IF hypLen = 0 THEN 1 ELSE hypLen
        matches == walk.matches
        matchRate == (matches * RateScale) \div referenceTotal
        precision == (matches * RateScale) \div spokenTotal
        matched == SelectSeq(walk.tokens, LAMBDA t : t.status = "match")
        normalized == [k \in 1..Len(matched) |->
                          scoreNormalizeConfidence(matched[k].confidence)]
        known == SelectSeq(normalized, IsNum)
        matchedConfidences == [k \in 1..Len(known) |-> known[k][2]]
        confidenceScore ==
            IF Len(matchedConfidences) > 0
            THEN SumSeq(matchedConfidences) \div Len(matchedConfidences)
            ELSE 4000
        highConfidenceMatches ==
            Len(SelectSeq(matchedConfidences, LAMBDA c : c >= 8800))
        highConfidenceRate ==
            IF matches > 0 THEN (highConfidenceMatches * RateScale) \div matches ELSE 0
        errors == walk.substitutions + walk.deletions + walk.extras
        wer == (errors * RateScale) \div referenceTotal
        baseScore ==
            (PowAt(Pow135Table, matchRate) * 45 + PowAt(Pow12Table, precision) * 25
               + PowAt(Pow17Table, confidenceScore) * 20 + highConfidenceRate * 10) \div 100
        errorPenalty ==
            (wer * 55) \div 100 + (Max(0, 9000 - confidenceScore) * 25) \div 100
               + ((RateScale - highConfidenceRate) * 20) \div 100
        raw == Clamp(0, FullScore, baseScore - errorPenalty)
        cap96 == IF errors * 100 > 2 * referenceTotal \/ confidenceScore < 9400
                 THEN Min(raw, 9600) ELSE raw
        cap90 == IF errors * 100 > 8 * referenceTotal \/ confidenceScore < 9000
                 THEN Min(cap96, 9000) ELSE cap96
        cap80 == IF errors * 100 > 18 * referenceTotal THEN Min(cap90, 8000) ELSE cap90
    IN  cap80

\* scoring.ts diffWords; the signature field, derived from the same counters
\* and read by no caller's control flow, is left out
diffWords(reference, hypothesis, hypothesisConfidences) ==
    LET ref == scoreTokenize(reference)
        hyp == scoreTokenize(hypothesis)
        walk == WalkOps(EditOps(ref, hyp), ref, hyp, hypothesisConfidences,
                        [ri |-> 0, hi |-> 0, tokens |-> <<>>, mismatches |-> <<>>,
                         matches |-> 0, substitutions |-> 0, deletions |-> 0,
                         extras |-> 0])
    IN  [tokens |-> walk.tokens,
         accuracy |-> computeAccuracy(walk, Len(ref), Len(hyp)),
         mismatches |-> walk.mismatches]

-----------------------------------------------------------------------------
(* Phoneme hints *)

endsWith(s, p) == Len(p) <= Len(s) /\ TakeLast(s, Len(p)) = p

TipTh == "Possible /th/ -> /d/ substitution; place tongue lightly behind upper teeth."
TipV == "Possible /v/ -> /w/; touch upper teeth to lower lip and voice the sound."
TipL == "Possible /l/ -> /r/; keep tongue tip on alveolar ridge to avoid retroflex /r/."
TipNg == "Possible /ng/ -> /n/; lift tongue back to seal the soft palate for /ng/."
GenericTip ==
    "Overall, your pronunciation is quite good. Keep up the great work and stay consistent."

\* the value null of a hint
NullHint == "null"

\* phonemeRules; ref and hyp are the patterns /^th/, /^d/, /^v/, /^w/, /^l/,
\* /^r/, /ing$/ and /in$/, each given by its anchor and its literal text
phonemeRules ==
    << [ref |-> [anchor |-> "start", text |-> <<"t", "h">>],
        hyp |-> [anchor |-> "start", text |-> <<"d">>], tip |-> TipTh],
       [ref |-> [anchor |-> "start", text |-> <<"v">>],
        hyp |-> [anchor |-> "start", text |-> <<"w">>], tip |-> TipV],
       [ref |-> [anchor |-> "start", text |-> <<"l">>],
        hyp |-> [anchor |-> "start", text |-> <<"r">>], tip |-> TipL],
       [ref |-> [anchor |-> "end", text |-> <<"i", "n", "g">>],
        hyp |-> [anchor |-> "end", text |-> <<"i", "n">>], tip |-> TipNg] >>

\* RegExp.prototype.test for an anchored literal pattern
RegExpTest(pattern, s) ==
    IF pattern.anchor = "start" THEN startsWith(s, pattern.text)
    ELSE endsWith(s, pattern.text)

\* m.ref and m.hyp: a field that is absent reads as undefined, which like
\* the empty string is falsy
HasRef(m) == "ref" \in DOMAIN m /\ m.ref # <<>>
HasHyp(m) == "hyp" \in DOMAIN m /\ m.hyp # <<>>

\* the inner loop "for (const rule of phonemeRules)": the index of the first
\* rule from k on that matches m, or 0
RECURSIVE FirstRuleFrom(_, _)
FirstRuleFrom(m, k) ==
    IF k > Len(phonemeRules) THEN 0
    ELSE IF RegExpTest(phonemeRules[k].ref, m.ref) /\ RegExpTest(phonemeRules[k].hyp, m.hyp)
         THEN k
         ELSE FirstRuleFrom(m, k + 1)

\* the outer loop "for (const m of mismatches)" with the value returned when
\* it finishes without a match
RECURSIVE HintLoop(_, _)
HintLoop(mismatches, otherwise) ==
    IF mismatches = <<>> THEN otherwise
    ELSE LET m == Head(mismatches)
             k == IF HasRef(m) /\ HasHyp(m) THEN FirstRuleFrom(m, 1) ELSE 0
         IN  IF k > 0 THEN phonemeRules[k].tip
             ELSE HintLoop(Tail(mismatches), otherwise)

\* the tip of the first rule, in table order, that matches any mismatch:
\* the lookup a table-order tie-break describes
RECURSIVE HintByRuleFrom(_, _, _)
HintByRuleFrom(mismatches, k, otherwise) ==
    IF k > Len(phonemeRules) THEN otherwise
    ELSE IF \E i \in DOMAIN mismatches :
               /\ HasRef(mismatches[i]) /\ HasHyp(mismatches[i])
               /\ RegExpTest(phonemeRules[k].ref, mismatches[i].ref)
               /\ RegExpTest(phonemeRules[k].hyp, mismatches[i].hyp)
         THEN phonemeRules[k].tip
         ELSE HintByRuleFrom(mismatches, k + 1, otherwise)

\* scoring.ts pickPhonemeHint, strict-score revision
pickPhonemeHint(mismatches) == HintLoop(mismatches, NullHint)

\* scoring.ts pickPhonemeHint, simple-score revision
pickPhonemeHintSimple(mismatches) == HintLoop(mismatches, GenericTip)

NoHints == [strict |-> NullHint, simple |-> NullHint]

-----------------------------------------------------------------------------
(* Input domains *)

\* characters the bounded inputs are built from: two letters, an upper-case
\* letter, whitespace and punctuation
Alphabet == {"a", "b", "A", " ", "."}

MaxTextLen == 3

RECURSIVE StringsUpTo(_)
StringsUpTo(n) ==
    IF n = 0 THEN {<<>>}
    ELSE LET shorter == StringsUpTo(n - 1) IN
         shorter \cup {Append(s, c) : s \in {t \in shorter : Len(t) = n - 1}, c \in Alphabet}

Texts == StringsUpTo(MaxTextLen)

-----------------------------------------------------------------------------
(* Input domains of the scorer *)

\* raw words as they appear in a sentence: plain, and capitalised with
\* punctuation attached (both tokenize to "a")
ScoreWords == { <<"a">>, <<"b">>, <<"A", ".">> }

MaxTokens == 3

RECURSIVE WordSeqsUpTo(_)
WordSeqsUpTo(n) ==
    IF n = 0 THEN {<<>>}
    ELSE LET shorter == WordSeqsUpTo(n - 1) IN
         shorter \cup {Append(ws, w) : ws \in {t \in shorter : Len(t) = n - 1},
                                       w \in ScoreWords}

\* Array.prototype.join(" ")
RECURSIVE JoinWords(_)
JoinWords(ws) ==
    IF ws = <<>> THEN <<>>
    ELSE IF Len(ws) = 1 THEN ws[1]
    ELSE ws[1] \o <<" ">> \o JoinWords(Tail(ws))

Sentences == {JoinWords(ws) : ws \in WordSeqsUpTo(MaxTokens)}

\* hypothesisConfidences: absent, all null, all 1.0, all 95 on the 0-100
\* scale, and a mix of null, 0.5 and 95
ConfidenceArrays ==
    { <<>>,
      [k \in 1..MaxTokens |-> Null],
      [k \in 1..MaxTokens |-> Num(ConfScale)],
      [k \in 1..MaxTokens |-> Num(95 * ConfScale)],
      [k \in 1..MaxTokens |-> IF k % 3 = 1 THEN Null
                              ELSE IF k % 3 = 2 THEN Num(5000)
                              ELSE Num(95 * ConfScale)] }

NoResult == [tokens |-> <<>>, accuracy |-> 0, mismatches |-> <<>>]

\* the harnesses of the pure functions at rest
scoreIdle ==
    /\ sRef = <<>> /\ sHyp = <<>> /\ sConf = <<>> /\ sOut = NoResult /\ sPhase = "idle"

mergeIdle ==
    /\ mPrev = <<>> /\ mNext = <<>> /\ mOut = <<>> /\ mPhase = "idle"

loopIdle ==
    /\ lIncoming = <<>> /\ lRecent = <<>> /\ lOut = FALSE /\ lPhase = "idle"

hintIdle ==
    /\ hMismatches = <<>> /\ hOut = NoHints /\ hPhase = "idle"

NoConfidences ==
    [hook |-> Null, score |-> Null, hookAgain |-> Null, scoreAgain |-> Null]

confIdle ==
    /\ cIn = Null /\ cOut = NoConfidences /\ cPhase = "idle"

extractIdle ==
    /\ eWords = [present |-> FALSE] /\ eText = <<>> /\ eOut = <<>> /\ ePhase = "idle"

fnIdle == hintIdle /\ confIdle /\ extractIdle

connIdle ==
    /\ sockets = <<>> /\ wsId = 0
    /\ speechFramesRef = 0 /\ silenceFramesRef = 0 /\ utteranceStartedAtRef = 0
    /\ frameAwaiting = FALSE /\ audioClosing = FALSE
    /\ stopped = FALSE /\ silentRun = 0

-----------------------------------------------------------------------------
(* The hook useASR: recognition messages and the caller's operations *)

\* transcript fragments the recognizer sends: empty, punctuation only, short
\* words that overlap character-wise, and a sentence of eight words
Fragments ==
    { <<>>,
      <<".">>,
      <<"a">>,
      <<"a", "b">>,
      <<"b", " ", "a">>,
      <<"A", "b", ".">>,
      <<"a", " ", "b", " ", "c", " ", "d", " ", "e", " ", "f", " ", "g", " ", "h">> }

MaxMessages == 3

\* the words array of a message that carries one: an entry per
\* whitespace-separated word of the transcript, scored 0.9
WordsOf(text) ==
    LET raw == SplitWords(CollapseSpaces(trim(text)))
    IN  [k \in 1..Len(raw) |-> [word |-> raw[k], confidence |-> Num(9000)]]

NoWords == [present |-> FALSE]

\* results with and without a words array; the handler reads words only of
\* a final result, so partial results are drawn without one
Messages ==
    { [is_final |-> f, transcript |-> t, words |-> NoWords] :
        f \in BOOLEAN, t \in Fragments }
    \cup
    { [is_final |-> TRUE, transcript |-> t, words |-> [present |-> TRUE, list |-> WordsOf(t)]] :
        t \in Fragments }

NoMessage == [kind |-> "none"]

Did(op) == [op |-> op, msg |-> NoMessage, repeat |-> FALSE]

hookIdle ==
    /\ transcriptRef = <<>> /\ wordConfidencesRef = <<>>
    /\ partialRef = <<>> /\ partialTranscript = <<>>
    /\ lastFinalRef = <<>> /\ lastPartialRef = <<>> /\ recentFinalsRef = <<>>
    /\ pausedRef = FALSE /\ eofSentRef = FALSE /\ inUtteranceRef = FALSE
    /\ wsRef = "none" /\ connectingRef = FALSE /\ startPending = FALSE
    /\ processorRef = FALSE
    /\ msgCount = 0
    /\ hist = Did("init")

Init == hookIdle /\ mergeIdle /\ scoreIdle /\ loopIdle /\ fnIdle /\ connIdle

dataVars == <<transcriptRef, wordConfidencesRef, lastFinalRef, recentFinalsRef>>
controlVars == <<pausedRef, eofSentRef, inUtteranceRef, wsRef, connectingRef,
                 startPending, processorRef>>
harnessVars == <<mergeVars, scoreVars, loopVars, fnVars, connVars>>

\* variant: the dedupe guards clear the display and fall through
PassesDedupeGuards_FallThrough(finalText) == TRUE

\* the four dedupe guards of the final branch: TRUE when none of them returns
\* variant: only the last accepted final is compared
PassesDedupeGuards_LastOnly(finalText) ==
    ~isSameNormalized(finalText, lastFinalRef)

PassesDedupeGuards(finalText) ==
    /\ ~isSameNormalized(finalText, lastFinalRef)
    /\ ~isLoopingFinal(finalText, recentFinalsRef)
    /\ ~isLikelyRepeatedSegment(transcriptRef, finalText)
    /\ LET tail == TakeLast(normalizeText(transcriptRef), TailGuardChars)
       IN  ~(tail # <<>> /\ Above(wordSimilarity(tail, normalizeText(finalText)), 92, 100))

\* variant: a late final is not ignored after end-of-utterance
OnFinal_IgnoresEof(msg) ==
    LET finalText == trim(msg.transcript)
    IN  IF finalText = <<>> THEN
            /\ partialRef' = <<>>
            /\ partialTranscript' = <<>>
            /\ UNCHANGED <<dataVars, lastPartialRef>>
        ELSE IF ~PassesDedupeGuards(finalText) THEN
            /\ partialTranscript' = <<>>
            /\ UNCHANGED <<dataVars, lastPartialRef, partialRef>>
        ELSE
            /\ lastFinalRef' = finalText
            /\ recentFinalsRef' = pushRecentFinal(recentFinalsRef, finalText)
            /\ lastPartialRef' = <<>>
            /\ transcriptRef' = mergeTranscript(transcriptRef, finalText)
            /\ wordConfidencesRef' =
                   mergeWordConfidences(transcriptRef, wordConfidencesRef,
                                        extractWordConfidences(msg.words, finalText))
            /\ partialRef' = <<>>
            /\ partialTranscript' = <<>>

\* ws.onmessage, final branch
OnFinal(msg) ==
    LET finalText == trim(msg.transcript)
    IN  IF finalText = <<>> THEN
            /\ partialRef' = <<>>
            /\ partialTranscript' = <<>>
            /\ UNCHANGED <<dataVars, lastPartialRef>>
        ELSE IF eofSentRef \/ ~PassesDedupeGuards(finalText) THEN
            /\ partialTranscript' = <<>>
            /\ UNCHANGED <<dataVars, lastPartialRef, partialRef>>
        ELSE
            /\ lastFinalRef' = finalText
            /\ recentFinalsRef' = pushRecentFinal(recentFinalsRef, finalText)
            /\ lastPartialRef' = <<>>
            /\ transcriptRef' = mergeTranscript(transcriptRef, finalText)
            /\ wordConfidencesRef' =
                   mergeWordConfidences(transcriptRef, wordConfidencesRef,
                                        extractWordConfidences(msg.words, finalText))
            /\ partialRef' = <<>>
            /\ partialTranscript' = <<>>

\* variant: an accepted partial is merged into the committed transcript
OnPartial_Commits(msg) ==
    LET partialText == trim(msg.transcript)
    IN  IF partialText = <<>> THEN
            /\ lastPartialRef' = <<>>
            /\ partialRef' = <<>>
            /\ partialTranscript' = <<>>
            /\ UNCHANGED dataVars
        ELSE IF \/ eofSentRef
                \/ isSameNormalized(partialText, lastPartialRef)
                \/ containsNormalized(transcriptRef, partialText) THEN
            UNCHANGED <<dataVars, lastPartialRef, partialRef, partialTranscript>>
        ELSE
            /\ lastPartialRef' = partialText
            /\ partialRef' = partialText
            /\ partialTranscript' = partialText
            /\ transcriptRef' = mergeTranscript(transcriptRef, partialText)
            /\ wordConfidencesRef' =
                   mergeWordConfidences(transcriptRef, wordConfidencesRef,
                                        NullScored(partialText))
            /\ UNCHANGED <<lastFinalRef, recentFinalsRef>>

\* ws.onmessage, partial branch
OnPartial(msg) ==
    LET partialText == trim(msg.transcript)
    IN  IF partialText = <<>> THEN
            /\ lastPartialRef' = <<>>
            /\ partialRef' = <<>>
            /\ partialTranscript' = <<>>
            /\ UNCHANGED dataVars
        ELSE IF \/ eofSentRef
                \/ isSameNormalized(partialText, lastPartialRef)
                \/ containsNormalized(transcriptRef, partialText) THEN
            UNCHANGED <<dataVars, lastPartialRef, partialRef, partialTranscript>>
        ELSE
            /\ lastPartialRef' = partialText
            /\ partialRef' = partialText
            /\ partialTranscript' = partialText
            /\ UNCHANGED dataVars

\* ws.onmessage of the socket wsRef holds, for the first limit messages
Deliver(msg, limit) ==
    /\ wsRef = "open"
    /\ msgCount < limit
    /\ msgCount' = msgCount + 1
    /\ hist' = [op |-> "message", msg |-> msg,
                repeat |-> (hist.op = "message" /\ hist.msg = msg)]
    /\ IF pausedRef THEN
           UNCHANGED <<dataVars, lastPartialRef, partialRef, partialTranscript>>
       ELSE IF msg.is_final THEN OnFinal(msg)
       ELSE OnPartial(msg)
    /\ UNCHANGED controlVars
    /\ UNCHANGED harnessVars

OnMessage(msg) == Deliver(msg, MaxMessages)

\* startASR up to its first await (fetchToken)
StartASR ==
    /\ ~startPending
    /\ transcriptRef' = <<>> /\ wordConfidencesRef' = <<>>
    /\ partialRef' = <<>> /\ partialTranscript' = <<>>
    /\ lastFinalRef' = <<>> /\ lastPartialRef' = <<>> /\ recentFinalsRef' = <<>>
    /\ inUtteranceRef' = FALSE /\ eofSentRef' = FALSE
    /\ pausedRef' = FALSE
    /\ startPending' = TRUE
    /\ hist' = Did("start")
    /\ UNCHANGED <<wsRef, connectingRef, processorRef, msgCount>>
    /\ UNCHANGED harnessVars

\* startASR after the token arrived: connectWs, then the audio graph
StartASRConnected ==
    /\ startPending
    /\ startPending' = FALSE
    /\ wsRef' = "open"
    /\ processorRef' = TRUE
    /\ hist' = Did("connected")
    /\ UNCHANGED <<dataVars, lastPartialRef, partialRef, partialTranscript,
                   pausedRef, eofSentRef, inUtteranceRef, connectingRef, msgCount>>
    /\ UNCHANGED harnessVars

\* ensureWsOpen after the token arrived: connectWs
EnsureWsOpenConnected ==
    /\ connectingRef
    /\ connectingRef' = FALSE
    /\ wsRef' = "open"
    /\ hist' = Did("reconnected")
    /\ UNCHANGED <<dataVars, lastPartialRef, partialRef, partialTranscript,
                   pausedRef, eofSentRef, inUtteranceRef, startPending, processorRef,
                   msgCount>>
    /\ UNCHANGED harnessVars

\* processor.onaudioprocess, a frame that completes SPEECH_FRAMES_TO_START
\* speech frames outside an utterance: the utterance starts, ensureWsOpen
AudioUtteranceStart ==
    /\ processorRef /\ ~pausedRef /\ ~inUtteranceRef
    /\ inUtteranceRef' = TRUE
    /\ eofSentRef' = FALSE
    /\ connectingRef' = IF wsRef = "open" THEN connectingRef ELSE TRUE
    /\ hist' = Did("utterance")
    /\ UNCHANGED <<dataVars, lastPartialRef, partialRef, partialTranscript,
                   pausedRef, wsRef, startPending, processorRef, msgCount>>
    /\ UNCHANGED harnessVars

\* processor.onaudioprocess, a silent frame inside an utterance past
\* SILENCE_FRAMES_CLEAR_PARTIAL and not past SILENCE_FRAMES_TO_EOF
AudioSilence ==
    /\ processorRef /\ ~pausedRef /\ inUtteranceRef
    /\ partialTranscript' = <<>>
    /\ hist' = Did("silence")
    /\ UNCHANGED <<dataVars, lastPartialRef, partialRef, controlVars, msgCount>>
    /\ UNCHANGED harnessVars

\* processor.onaudioprocess, a frame that ends the utterance (silence past
\* SILENCE_FRAMES_TO_EOF, or one of the two timeouts): endUtterance
AudioEndUtterance ==
    /\ processorRef /\ ~pausedRef /\ inUtteranceRef
    /\ ~eofSentRef
    /\ eofSentRef' = TRUE
    /\ partialTranscript' = <<>>
    /\ wsRef' = "none"
    /\ inUtteranceRef' = FALSE
    /\ hist' = Did("eof")
    /\ UNCHANGED <<dataVars, lastPartialRef, partialRef, pausedRef, connectingRef,
                   startPending, processorRef, msgCount>>
    /\ UNCHANGED harnessVars

\* stopASR
StopASR ==
    /\ pausedRef' = FALSE
    /\ partialRef' = <<>>
    /\ wsRef' = "none"
    /\ processorRef' = FALSE
    /\ inUtteranceRef' = FALSE
    /\ eofSentRef' = FALSE
    /\ hist' = Did("stop")
    /\ UNCHANGED <<dataVars, lastPartialRef, partialTranscript, connectingRef,
                   startPending, msgCount>>
    /\ UNCHANGED harnessVars

\* pauseASR
PauseASR ==
    LET pendingPartial == trim(partialRef)
    IN  /\ IF pendingPartial # <<>> THEN
               /\ transcriptRef' = mergeTranscript(transcriptRef, pendingPartial)
               /\ wordConfidencesRef' =
                      mergeWordConfidences(transcriptRef, wordConfidencesRef,
                                           NullScored(pendingPartial))
               /\ lastFinalRef' = pendingPartial
               /\ partialRef' = <<>>
           ELSE UNCHANGED <<transcriptRef, wordConfidencesRef, lastFinalRef, partialRef>>
        /\ pausedRef' = TRUE
        /\ wsRef' = "none"
        /\ partialTranscript' = <<>>
        /\ hist' = Did("pause")
        /\ UNCHANGED <<recentFinalsRef, lastPartialRef, eofSentRef, inUtteranceRef,
                       connectingRef, startPending, processorRef, msgCount>>
        /\ UNCHANGED harnessVars

\* resumeASR
ResumeASR ==
    /\ pausedRef' = FALSE
    /\ inUtteranceRef' = FALSE
    /\ eofSentRef' = FALSE
    /\ hist' = Did("resume")
    /\ UNCHANGED <<dataVars, lastPartialRef, partialRef, partialTranscript, wsRef,
                   connectingRef, startPending, processorRef, msgCount>>
    /\ UNCHANGED harnessVars

\* variant: resetTranscript that keeps the dedupe history
ResetTranscript_KeepsHistory ==
    /\ transcriptRef' = <<>> /\ wordConfidencesRef' = <<>>
    /\ partialRef' = <<>> /\ partialTranscript' = <<>>
    /\ inUtteranceRef' = FALSE /\ eofSentRef' = FALSE
    /\ hist' = Did("reset")
    /\ UNCHANGED <<lastFinalRef, lastPartialRef, recentFinalsRef, pausedRef, wsRef,
                   connectingRef, startPending, processorRef, msgCount>>
    /\ UNCHANGED harnessVars

\* resetTranscript
ResetTranscript ==
    /\ transcriptRef' = <<>> /\ wordConfidencesRef' = <<>>
    /\ partialRef' = <<>> /\ partialTranscript' = <<>>
    /\ lastFinalRef' = <<>> /\ lastPartialRef' = <<>> /\ recentFinalsRef' = <<>>
    /\ inUtteranceRef' = FALSE /\ eofSentRef' = FALSE
    /\ hist' = Did("reset")
    /\ UNCHANGED <<pausedRef, wsRef, connectingRef, startPending, processorRef,
                   msgCount>>
    /\ UNCHANGED harnessVars

\* ws.onclose of the socket wsRef holds (the server closed it)
ServerClose ==
    /\ wsRef = "open"
    /\ wsRef' = "none"
    /\ hist' = Did("closed")
    /\ UNCHANGED <<dataVars, lastPartialRef, partialRef, partialTranscript,
                   pausedRef, eofSentRef, inUtteranceRef, connectingRef, startPending,
                   processorRef, msgCount>>
    /\ UNCHANGED harnessVars

Next ==
    \/ \E msg \in Messages : OnMessage(msg)
    \/ StartASR
    \/ StartASRConnected
    \/ EnsureWsOpenConnected
    \/ AudioUtteranceStart
    \/ AudioSilence
    \/ AudioEndUtterance
    \/ StopASR
    \/ PauseASR
    \/ ResumeASR
    \/ ResetTranscript
    \/ ServerClose

Spec == Init /\ [][Next]_vars

-----------------------------------------------------------------------------
(* Messages that are not an ASRResult *)

\* what a socket can deliver besides a well-typed result: text that is not
\* JSON, the payload null, a payload that is no result object (a number, a
\* string, an array, {}), a transcript that is a non-zero number or an
\* object, a words array holding null, and a words array whose entry carries
\* a number as its word
MalformedTranscripts == { <<"a", "b">>, <<"b", " ", "a">> }

MalformedMessages ==
    { [kind |-> k] : k \in {"invalid_json", "null_payload", "not_an_object"} }
    \cup
    { [kind |-> "transcript_not_string", is_final |-> f] : f \in BOOLEAN }
    \cup
    { [kind |-> k, is_final |-> f, transcript |-> t] :
        k \in {"words_entry_null", "word_not_string"},
        f \in BOOLEAN, t \in MalformedTranscripts }

\* the final branch for a result whose words make extractWordConfidences
\* throw: the statements before the call have run, the catch ends the handler
OnFinalWordsThrow(transcript) ==
    LET finalText == trim(transcript)
    IN  IF finalText = <<>> THEN
            /\ partialRef' = <<>>
            /\ partialTranscript' = <<>>
            /\ UNCHANGED <<dataVars, lastPartialRef>>
        ELSE IF eofSentRef \/ ~PassesDedupeGuards(finalText) THEN
            /\ partialTranscript' = <<>>
            /\ UNCHANGED <<dataVars, lastPartialRef, partialRef>>
        ELSE
            /\ lastFinalRef' = finalText
            /\ recentFinalsRef' = pushRecentFinal(recentFinalsRef, finalText)
            /\ lastPartialRef' = <<>>
            /\ UNCHANGED <<transcriptRef, wordConfidencesRef, partialRef,
                           partialTranscript>>

\* ws.onmessage for a message of MalformedMessages
OnMalformedMessage(m) ==
    /\ wsRef = "open"
    /\ msgCount < MaxMessages
    /\ msgCount' = msgCount + 1
    /\ hist' = [op |-> "malformed", msg |-> m, repeat |-> FALSE]
    /\ IF pausedRef THEN
           UNCHANGED <<dataVars, lastPartialRef, partialRef, partialTranscript>>
       ELSE IF m.kind \in {"invalid_json", "null_payload"} THEN
           \* JSON.parse throws, or reading is_final of null throws
           UNCHANGED <<dataVars, lastPartialRef, partialRef, partialTranscript>>
       ELSE IF m.kind = "not_an_object" THEN
           \* is_final and transcript are undefined: a partial with the text ""
           OnPartial([transcript |-> <<>>])
       ELSE IF m.kind = "transcript_not_string" THEN
           \* (result.transcript || "").trim is not a function
           UNCHANGED <<dataVars, lastPartialRef, partialRef, partialTranscript>>
       ELSE IF m.kind = "words_entry_null" THEN
           \* logWordConfidences reads word.word of null
           UNCHANGED <<dataVars, lastPartialRef, partialRef, partialTranscript>>
       ELSE IF m.is_final THEN OnFinalWordsThrow(m.transcript)
       ELSE OnPartial([transcript |-> m.transcript])
    /\ UNCHANGED controlVars
    /\ UNCHANGED harnessVars

MalformedNext ==
    \/ Next
    \/ \E m \in MalformedMessages : OnMalformedMessage(m)

MalformedSpec == Init /\ [][MalformedNext]_vars

\* C12 as stated: a message that cannot be parsed or typed as expected is
\* dropped, the committed transcript, wordConfidences, the pending partial,
\* the last-final marker and the recent-finals history stay as they were.
C12_MalformedMessageChangesNothing ==
    [][hist'.op = "malformed"
          => UNCHANGED <<transcriptRef, wordConfidencesRef, partialRef,
                         lastFinalRef, recentFinalsRef>>]_vars

-----------------------------------------------------------------------------
(* Properties of the hook *)

\* C1: starting from an empty session, after any sequence of final results
\* and pending-partial commits, wordConfidences has as many entries as the
\* committed transcript has tokens.
C1_ConfidencesAlignWithTranscript ==
    Len(wordConfidencesRef) = Len(tokenize(transcriptRef))

\* C5: delivering the same final result twice in a row leaves the committed
\* transcript and wordConfidences after the second delivery equal to their
\* values after the first.
C5_RepeatedFinalChangesNothing ==
    [][(hist'.op = "message" /\ hist'.repeat /\ hist'.msg.is_final)
          => UNCHANGED <<transcriptRef, wordConfidencesRef>>]_vars

\* the second of two equal final results in a row has been handled, the first
\* one had been accepted into a transcript that already held other text
C5_Witness ==
    /\ hist.op = "message" /\ hist.repeat /\ hist.msg.is_final
    /\ ~pausedRef /\ ~eofSentRef
    /\ lastFinalRef = trim(hist.msg.transcript)
    /\ Len(recentFinalsRef) = 2
    /\ Len(tokenize(hist.msg.transcript)) >= LoopMinWords

\* C6: after any sequence of operations, resetTranscript leaves the committed
\* transcript, the pending partial, wordConfidences and the dedupe state (last
\* final, last partial, recent finals) empty.
C6_ResetClearsEverything ==
    hist.op = "reset" =>
        /\ transcriptRef = <<>>
        /\ partialRef = <<>>
        /\ partialTranscript = <<>>
        /\ wordConfidencesRef = <<>>
        /\ lastFinalRef = <<>>
        /\ lastPartialRef = <<>>
        /\ recentFinalsRef = <<>>

\* resetTranscript has just run on a session that had accepted two results
C6_Witness ==
    /\ hist.op = "reset"
    /\ msgCount >= 2

\* C13 as stated: a partial result whose normalized text is empty, or is a
\* substring of the normalized committed transcript, or equals the normalized
\* previous partial, changes neither the pending partial, the last-partial
\* marker, the committed transcript nor wordConfidences.
C13_JitterPartialChangesNothing ==
    [][(/\ hist'.op = "message"
        /\ ~hist'.msg.is_final
        /\ LET n == normalizeText(hist'.msg.transcript)
           IN  \/ n = <<>>
               \/ includes(normalizeText(transcriptRef), n)
               \/ n = normalizeText(lastPartialRef))
          => UNCHANGED <<partialRef, lastPartialRef, transcriptRef, wordConfidencesRef>>]_vars

\* C14: handling a partial result never changes the committed transcript,
\* wordConfidences, the last-final marker or the recent-finals history; a
\* step that gives wordConfidences a new non-empty value is the handling of a
\* final result or pauseASR committing the pending partial.
C14_PartialCommitsNothing ==
    [][/\ (hist'.op = "message" /\ ~hist'.msg.is_final)
              => UNCHANGED <<transcriptRef, wordConfidencesRef, lastFinalRef,
                             recentFinalsRef>>
       /\ (wordConfidencesRef' # wordConfidencesRef /\ wordConfidencesRef' # <<>>)
              => \/ hist'.op = "message" /\ hist'.msg.is_final
                 \/ hist'.op = "pause"]_vars

\* a partial has just been accepted as the pending partial of a session that
\* holds committed text and confidences
C14_Witness ==
    /\ hist.op = "message" /\ ~hist.msg.is_final
    /\ partialRef # <<>>
    /\ partialRef = trim(hist.msg.transcript)
    /\ transcriptRef # <<>>
    /\ wordConfidencesRef # <<>>
    /\ lastFinalRef # <<>>

\* C15 as stated: a final result whose normalized text is empty (empty,
\* whitespace only or punctuation only) clears the pending partial and leaves
\* the committed transcript, wordConfidences, the last-final marker and the
\* recent-finals history unchanged.
C15_EmptyFinalOnlyClearsPartial ==
    [][(/\ hist'.op = "message"
        /\ hist'.msg.is_final
        /\ normalizeText(hist'.msg.transcript) = <<>>)
          => /\ partialRef' = <<>>
             /\ UNCHANGED <<transcriptRef, wordConfidencesRef, lastFinalRef,
                            recentFinalsRef>>]_vars

\* C16 as stated: on a running session, a final result of fewer than 8 words
\* that repeats a final already accepted is not suppressed by the dedupe
\* guards: it is accepted (recorded as the last final and in the recent
\* finals) and reaches the merge.
C16_ShortRepeatIsAccepted ==
    [][(/\ hist'.op = "message"
        /\ hist'.msg.is_final
        /\ ~pausedRef /\ ~eofSentRef
        /\ LET n == normalizeText(hist'.msg.transcript)
           IN  /\ n # <<>>
               /\ Len(SplitWords(n)) < LoopMinWords
               /\ \E i \in DOMAIN recentFinalsRef : recentFinalsRef[i] = n)
          => /\ lastFinalRef' = trim(hist'.msg.transcript)
             /\ recentFinalsRef' = pushRecentFinal(recentFinalsRef, hist'.msg.transcript)]_vars

\* C19 as stated: when pauseASR or stopASR runs while a non-empty pending
\* partial is outstanding that the committed transcript does not contain,
\* the normalized committed transcript afterwards contains the normalized
\* pending text and the pending partial is empty.
C19_PauseAndStopPromotePartial ==
    [][(/\ hist'.op \in {"pause", "stop"}
        /\ trim(partialRef) # <<>>
        /\ ~containsNormalized(transcriptRef, partialRef))
          => /\ includes(normalizeText(transcriptRef'), normalizeText(partialRef))
             /\ partialRef' = <<>>]_vars

\* C30: while the hook is paused, and after end-of-utterance has been
\* signalled (eofSentRef set) until the next utterance starts, no recognition
\* message changes the committed transcript, wordConfidences, the last
\* accepted final or the recent-finals history, and none sets a non-empty
\* partial.
C30_NoCommitWhilePausedOrEnded ==
    [][(hist'.op = "message" /\ (pausedRef \/ eofSentRef))
          => /\ UNCHANGED <<transcriptRef, wordConfidencesRef, lastFinalRef,
                            recentFinalsRef>>
             /\ partialRef' = partialRef \/ partialRef' = <<>>
             /\ partialTranscript' = partialTranscript \/ partialTranscript' = <<>>]_vars

\* a final with new text has been handled after end-of-utterance was
\* signalled, in a session that had committed other text
C30_Witness ==
    /\ hist.op = "message" /\ hist.msg.is_final
    /\ eofSentRef /\ ~pausedRef
    /\ transcriptRef # <<>>
    /\ normalizeText(hist.msg.transcript) # <<>>
    /\ ~containsNormalized(transcriptRef, hist.msg.transcript)


\* C38: a known confidence of a committed word is not replaced by unknown:
\* across ws.onmessage and pauseASR, when the words committed before stay
\* where they are in the transcript, every entry of wordConfidences that
\* was a number is still a number.
C38_KnownConfidenceStaysKnown ==
    [][LET before == tokenize(transcriptRef)
           after == tokenize(transcriptRef')
       IN  (/\ hist'.op \in {"message", "pause"}
            /\ Len(before) <= Len(after)
            /\ SubSeq(after, 1, Len(before)) = before)
           => \A k \in 1..Len(before) :
                  (k <= Len(wordConfidencesRef) /\ IsNum(wordConfidencesRef[k]))
                  => (k <= Len(wordConfidencesRef') /\ IsNum(wordConfidencesRef'[k]))]_vars

\* C39: the pending partial pauseASR would commit equals the partial
\* exposed for display.
C39_PendingPartialIsDisplayed ==
    partialRef = partialTranscript

-----------------------------------------------------------------------------
(* mergeTranscript applied to every pair of bounded inputs *)

MergeInit ==
    /\ mPrev \in Texts
    /\ mNext \in Texts
    /\ mOut = <<>>
    /\ mPhase = "input"
    /\ scoreIdle /\ hookIdle /\ loopIdle /\ fnIdle /\ connIdle

ApplyMerge ==
    /\ mPhase = "input"
    /\ mOut' = mergeTranscript(mPrev, mNext)
    /\ mPhase' = "done"
    /\ UNCHANGED <<mPrev, mNext, scoreVars, hookVars, connVars, loopVars, fnVars>>

MergeNext == ApplyMerge

MergeSpec == MergeInit /\ [][MergeNext]_vars

\* C2 as stated: for every non-empty text, mergeTranscript(text, text)
\* returns exactly text.
C2_SelfMergeReturnsText ==
    (mPhase = "done" /\ mPrev = mNext /\ mPrev # <<>>) => mOut = mPrev

\* C2 as amended: for every text, mergeTranscript(text, text) returns
\* text.trim(), which is text exactly when text has no leading or trailing
\* whitespace.
C2_SelfMergeReturnsTrimmedText ==
    (mPhase = "done" /\ mPrev = mNext) => mOut = trim(mPrev)

C2_Witness ==
    /\ mPhase = "done" /\ mPrev = mNext
    /\ trim(mPrev) # <<>> /\ trim(mPrev) # mPrev
    /\ mOut = trim(mPrev)

\* C3 as stated: whenever normalize(b) is a substring of normalize(a),
\* mergeTranscript(a, b) returns exactly a.
C3_ContainedIncomingReturnsPrevious ==
    (mPhase = "done" /\ includes(normalizeText(mPrev), normalizeText(mNext)))
        => mOut = mPrev

\* C3 as amended: whenever normalize(b) is non-empty and a substring of
\* normalize(a), mergeTranscript(a, b) returns a.trim().
C3_ContainedIncomingReturnsTrimmedPrevious ==
    (/\ mPhase = "done"
     /\ normalizeText(mNext) # <<>>
     /\ includes(normalizeText(mPrev), normalizeText(mNext)))
        => mOut = trim(mPrev)

C3_Witness ==
    /\ mPhase = "done"
    /\ normalizeText(mNext) # <<>>
    /\ includes(normalizeText(mPrev), normalizeText(mNext))
    /\ normalizeText(mNext) # normalizeText(mPrev)
    /\ ~startsWith(trim(mPrev), trim(mNext))
    /\ mOut = trim(mPrev)

\* C4: the number of tokens of mergeTranscript(a, b) is at least the number
\* of tokens of a.
C4_MergeNeverShrinks ==
    mPhase = "done" => Len(tokenize(mOut)) >= Len(tokenize(mPrev))

C4_Witness ==
    /\ mPhase = "done"
    /\ Len(tokenize(mPrev)) >= 1
    /\ Len(tokenize(mOut)) > Len(tokenize(mPrev))
    /\ mOut # trim(mPrev) \o <<" ">> \o trim(mNext)
    /\ mOut # trim(mNext)

\* none of the rules mergeTranscript tries before the overlap scan applies
\* to the trimmed strings a and b
NoEarlierRuleApplies(a, b) ==
    /\ a # <<>> /\ b # <<>> /\ a # b
    /\ ~containsNormalized(a, b) /\ ~containsNormalized(b, a)
    /\ ~startsWith(b, a) /\ ~startsWith(a, b)

\* the lengths k for which the last k characters of a equal the first k
\* characters of b, ignoring case
OverlapLengths(a, b) ==
    {k \in 1..Min(Len(a), Len(b)) :
        toLowerCase(TakeLast(a, k)) = toLowerCase(TakeFirst(b, k))}

\* C26: with previous and incoming trimmed, as the algorithm begins by doing,
\* and none of the empty, equality, containment or prefix rules applying,
\* mergeTranscript returns previous + incoming[k:] for the longest k
\* (1 <= k <= min of the lengths) such that the last k characters of previous
\* equal the first k characters of incoming ignoring case, and previous, one
\* space, incoming when there is no such k.
C26_SpliceAtLongestOverlap ==
    LET a == trim(mPrev)
        b == trim(mNext)
        lengths == OverlapLengths(a, b)
    IN  (mPhase = "done" /\ NoEarlierRuleApplies(a, b))
            => IF lengths = {}
               THEN mOut = a \o <<" ">> \o b
               ELSE \E k \in lengths :
                       /\ \A j \in lengths : j <= k
                       /\ mOut = a \o SubSeq(b, k + 1, Len(b))

\* "a.." and "..b" overlap in one and in two characters; the longer is taken
C26_Witness ==
    /\ mPhase = "done"
    /\ mPrev = <<"a", ".", ".">> /\ mNext = <<".", ".", "b">>
    /\ NoEarlierRuleApplies(trim(mPrev), trim(mNext))
    /\ mOut = <<"a", ".", ".", "b">>


\* C35: for all non-empty a and b, normalize(a) and normalize(b) are both
\* substrings of normalize(mergeTranscript(a, b)).
C35_MergeLosesNothing ==
    (mPhase = "done" /\ mPrev # <<>> /\ mNext # <<>>)
        => /\ includes(normalizeText(mOut), normalizeText(mPrev))
           /\ includes(normalizeText(mOut), normalizeText(mNext))

\* "ab" and "ba" overlap in one character: both remain in "aba"
C35_Witness ==
    /\ mPhase = "done"
    /\ mPrev = <<"a", "b">> /\ mNext = <<"b", "a">>
    /\ mOut = <<"a", "b", "a">>
    /\ includes(normalizeText(mOut), normalizeText(mPrev))
    /\ includes(normalizeText(mOut), normalizeText(mNext))

\* C36: every token of mergeTranscript(a, b) is a token of a or of b.
C36_MergeKeepsWordsWhole ==
    mPhase = "done"
        => \A k \in 1..Len(tokenize(mOut)) :
               \/ tokenize(mOut)[k] \in SeqToSet(tokenize(mPrev))
               \/ tokenize(mOut)[k] \in SeqToSet(tokenize(mNext))

-----------------------------------------------------------------------------
(* diffWords applied to every bounded reference, hypothesis and confidences *)

ScoreInit ==
    /\ sRef \in Sentences
    /\ sHyp \in Sentences
    /\ sConf \in ConfidenceArrays
    /\ sOut = NoResult
    /\ sPhase = "input"
    /\ mergeIdle /\ hookIdle /\ loopIdle /\ fnIdle /\ connIdle

ApplyDiff ==
    /\ sPhase = "input"
    /\ sOut' = diffWords(sRef, sHyp, sConf)
    /\ sPhase' = "done"
    /\ UNCHANGED <<sRef, sHyp, sConf, mergeVars, hookVars, connVars, loopVars, fnVars>>

ScoreNext == ApplyDiff

ScoreSpec == ScoreInit /\ [][ScoreNext]_vars

\* the token sequences the claims about diffWords speak of
RefTokens == scoreTokenize(sRef)
HypTokens == scoreTokenize(sHyp)

\* s without its k-th element
RemoveAt(s, k) == SubSeq(s, 1, k - 1) \o SubSeq(s, k + 1, Len(s))

\* no confidence data: the argument is absent, or every entry is null
NoConfidenceData == \A k \in DOMAIN sConf : ~IsNum(sConf[k])

AllMatch(tokens) == \A k \in DOMAIN tokens : tokens[k].status = "match"

\* C7 as stated: a hypothesis whose tokens are those of a non-empty
\* reference, with no confidence data, yields only match tokens, no
\* mismatch and the accuracy 100.
C7_PerfectMatchScores100 ==
    sPhase = "done" =>
        LET r == RefTokens
            h == HypTokens
        IN  (Len(r) >= 1 /\ h = r /\ NoConfidenceData)
                => /\ Len(sOut.tokens) = Len(h)
                   /\ AllMatch(sOut.tokens)
                   /\ sOut.mismatches = <<>>
                   /\ sOut.accuracy = FullScore

\* C8: reference and hypothesis of the same length that differ at exactly
\* one position i yield the single mismatch {ref: r[i], hyp: h[i]}, the
\* status miss (substitution) for token i and match for every other token,
\* and an accuracy below 100.
DiffersExactlyAt(r, h, i) ==
    /\ Len(r) = Len(h)
    /\ i \in DOMAIN r
    /\ \A k \in DOMAIN r : (r[k] # h[k]) <=> (k = i)

C8_SingleSubstitution ==
    sPhase = "done" =>
        LET r == RefTokens
            h == HypTokens
        IN  \A i \in 1..Len(r) :
                DiffersExactlyAt(r, h, i)
                    => /\ sOut.mismatches = << [ref |-> r[i], hyp |-> h[i]] >>
                       /\ Len(sOut.tokens) = Len(h)
                       /\ \A k \in DOMAIN sOut.tokens :
                             sOut.tokens[k].status = IF k = i THEN "miss" ELSE "match"
                       /\ sOut.accuracy < FullScore

C8_Witness ==
    /\ sPhase = "done"
    /\ LET r == RefTokens
           h == HypTokens
       IN  Len(r) >= 3 /\ DiffersExactlyAt(r, h, 2)
    /\ sOut.tokens[2].status = "miss"

\* C9: a hypothesis obtained by removing one token w from the reference
\* yields the single mismatch {ref: w} (no hyp), exactly |h| tokens, all
\* match, and an accuracy strictly below that of diffWords(r, r).
C9_SingleDeletion ==
    sPhase = "done" =>
        LET r == RefTokens
            h == HypTokens
        IN  \A i \in 1..Len(r) :
                h = RemoveAt(r, i)
                    => /\ sOut.mismatches = << [ref |-> r[i]] >>
                       /\ Len(sOut.tokens) = Len(h)
                       /\ AllMatch(sOut.tokens)
                       /\ sOut.accuracy < diffWords(sRef, sRef, sConf).accuracy

C9_Witness ==
    /\ sPhase = "done"
    /\ LET r == RefTokens
           h == HypTokens
       IN  /\ Len(r) >= 3
           /\ h = RemoveAt(r, 2)
           /\ r[2] # r[1] /\ r[2] # r[3]
           /\ sOut.mismatches = << [ref |-> r[2]] >>

\* C10: a hypothesis obtained by inserting one token w into the reference
\* yields the single mismatch {hyp: w} (no ref), the status extra
\* (insertion) for exactly one token, whose word is w, and match for every
\* other token.
C10_SingleInsertion ==
    sPhase = "done" =>
        LET r == RefTokens
            h == HypTokens
        IN  \A i \in 1..Len(h) :
                r = RemoveAt(h, i)
                    => /\ sOut.mismatches = << [hyp |-> h[i]] >>
                       /\ Len(sOut.tokens) = Len(h)
                       /\ \E k \in DOMAIN sOut.tokens :
                             /\ sOut.tokens[k].status = "extra"
                             /\ sOut.tokens[k].word = h[i]
                             /\ \A l \in DOMAIN sOut.tokens \ {k} :
                                   sOut.tokens[l].status = "match"

C10_Witness ==
    /\ sPhase = "done"
    /\ LET r == RefTokens
           h == HypTokens
       IN  /\ Len(h) >= 3
           /\ r = RemoveAt(h, 2)
           /\ h[2] # h[1] /\ h[2] # h[3]
    /\ sOut.tokens[2].status = "extra"

\* C11 as stated: for a reference with no tokens and any hypothesis,
\* diffWords returns the accuracy 0, no tokens and no mismatches.
C11_EmptyReferenceYieldsNothing ==
    (sPhase = "done" /\ RefTokens = <<>>) =>
        /\ sOut.accuracy = 0
        /\ sOut.tokens = <<>>
        /\ sOut.mismatches = <<>>

-----------------------------------------------------------------------------
(* The edit script of diffWords *)

\* the number of operations of the kind op in a script
CountOps(ops, op) == Cardinality({k \in DOMAIN ops : ops[k] = op})

\* the script ops, read from position (ri, hi), stays inside both token
\* sequences, pairs equal tokens at each match and unequal ones at each
\* substitution, and ends having consumed both sequences
RECURSIVE ScriptAligns(_, _, _, _, _)
ScriptAligns(ops, ref, hyp, ri, hi) ==
    IF ops = <<>> THEN ri = Len(ref) /\ hi = Len(hyp)
    ELSE LET op == Head(ops) IN
         IF op = "match" THEN
             /\ ri < Len(ref) /\ hi < Len(hyp)
             /\ ref[ri + 1] = hyp[hi + 1]
             /\ ScriptAligns(Tail(ops), ref, hyp, ri + 1, hi + 1)
         ELSE IF op = "sub" THEN
             /\ ri < Len(ref) /\ hi < Len(hyp)
             /\ ref[ri + 1] # hyp[hi + 1]
             /\ ScriptAligns(Tail(ops), ref, hyp, ri + 1, hi + 1)
         ELSE IF op = "ins" THEN
             /\ hi < Len(hyp)
             /\ ScriptAligns(Tail(ops), ref, hyp, ri, hi + 1)
         ELSE
             /\ op = "del"
             /\ ri < Len(ref)
             /\ ScriptAligns(Tail(ops), ref, hyp, ri + 1, hi)

\* the Levenshtein distance by its recursive definition
RECURSIVE Levenshtein(_, _)
Levenshtein(r, h) ==
    IF r = <<>> THEN Len(h)
    ELSE IF h = <<>> THEN Len(r)
    ELSE Min3(Levenshtein(Tail(r), h) + 1,
              Levenshtein(r, Tail(h)) + 1,
              Levenshtein(Tail(r), Tail(h)) + (IF Head(r) = Head(h) THEN 0 ELSE 1))

\* C27: the operation sequence diffWords derives is a valid optimal edit
\* script: matches + substitutions + deletions is the number of reference
\* tokens, matches + substitutions + insertions the number of hypothesis
\* tokens, every match pairs equal tokens and every substitution unequal
\* ones, the backtrace consumes both sequences exactly (it ends at (0,0) and
\* never leaves the matrix), and the number of mismatch entries is the
\* Levenshtein distance.
C27_EditScriptIsValidAndOptimal ==
    sPhase = "done" =>
        LET r == RefTokens
            h == HypTokens
            ops == EditOps(r, h)
            matches == CountOps(ops, "match")
            substitutions == CountOps(ops, "sub")
            insertions == CountOps(ops, "ins")
            deletions == CountOps(ops, "del")
        IN  /\ matches + substitutions + deletions = Len(r)
            /\ matches + substitutions + insertions = Len(h)
            /\ ScriptAligns(ops, r, h, 0, 0)
            /\ Len(sOut.mismatches) = substitutions + insertions + deletions
            /\ Len(sOut.mismatches) = Levenshtein(r, h)
            /\ Len(sOut.tokens) = matches + substitutions + insertions

\* reference "a b a" against hypothesis "b b": a deletion, a match and a
\* substitution
C27_Witness ==
    /\ sPhase = "done"
    /\ RefTokens = << <<"a">>, <<"b">>, <<"a">> >>
    /\ HypTokens = << <<"b">>, <<"b">> >>
    /\ Len(sOut.mismatches) = 2
    /\ Len(sOut.tokens) = 2

\* C28: the tokens diffWords emits are exactly the hypothesis tokens in their
\* original order, one per hypothesis token whatever the reference; a matched
\* token at hypothesis position k carries the normalized
\* hypothesisConfidences[k] (unknown when the array has no such entry), and
\* substitutions and insertions carry unknown confidence.
C28_TokensFollowHypothesis ==
    sPhase = "done" =>
        LET h == HypTokens
        IN  /\ Len(sOut.tokens) = Len(h)
            /\ \A k \in DOMAIN sOut.tokens :
                  LET token == sOut.tokens[k]
                  IN  /\ token.word = h[k]
                      /\ token.status \in {"match", "miss", "extra"}
                      /\ token.status = "match"
                            => token.confidence =
                                   IF k \in DOMAIN sConf
                                   THEN scoreNormalizeConfidence(sConf[k])
                                   ELSE Null
                      /\ token.status # "match" => token.confidence = Null

\* reference "b" against hypothesis "a b": the inserted word carries no
\* confidence, and the match, the second hypothesis token and the first
\* reference token, carries hypothesisConfidences[1]
C28_Witness ==
    /\ sPhase = "done"
    /\ RefTokens = << <<"b">> >>
    /\ HypTokens = << <<"a">>, <<"b">> >>
    /\ sConf = [k \in 1..MaxTokens |-> IF k % 3 = 1 THEN Null
                                       ELSE IF k % 3 = 2 THEN Num(5000)
                                       ELSE Num(95 * ConfScale)]
    /\ sOut.tokens = << [word |-> <<"a">>, status |-> "extra", confidence |-> Null],
                        [word |-> <<"b">>, status |-> "match", confidence |-> Num(5000)] >>

-----------------------------------------------------------------------------
(* isLoopingFinal applied to bounded finals and histories *)

\* the words finals are made of: the first MaxVocabulary lower-case letters
MaxVocabulary == 11

Vocabulary == {LowerLetters[k] : k \in 1..MaxVocabulary}

\* the words of a set in alphabetical order, joined by spaces
RECURSIVE SentenceOf(_, _)
SentenceOf(words, k) ==
    IF k > Len(LowerLetters) THEN <<>>
    ELSE LET rest == SentenceOf(words, k + 1)
         IN  IF LowerLetters[k] \notin words THEN rest
             ELSE IF rest = <<>> THEN <<LowerLetters[k]>>
             ELSE <<LowerLetters[k], " ">> \o rest

\* incoming finals: every choice of at least 7 distinct words
LoopIncomings ==
    {SentenceOf(ws, 1) : ws \in {x \in SUBSET Vocabulary : Cardinality(x) >= 7}}

\* recentFinalsRef: empty, or one normalized final of at least 9 distinct words
LoopHistories ==
    {<<>>} \cup
    {<<SentenceOf(ws, 1)>> : ws \in {x \in SUBSET Vocabulary : Cardinality(x) >= 9}}

LoopInit ==
    /\ lIncoming \in LoopIncomings
    /\ lRecent \in LoopHistories
    /\ lOut = FALSE
    /\ lPhase = "input"
    /\ hookIdle /\ mergeIdle /\ scoreIdle /\ fnIdle /\ connIdle

ApplyLoopCheck ==
    /\ lPhase = "input"
    /\ lOut' = isLoopingFinal(lIncoming, lRecent)
    /\ lPhase' = "done"
    /\ UNCHANGED <<lIncoming, lRecent, hookVars, connVars, mergeVars, scoreVars, fnVars>>

LoopNext == ApplyLoopCheck

LoopSpec == LoopInit /\ [][LoopNext]_vars

\* the word set of a normalized text
WordSet(text) == SeqToSet(SplitWords(normalizeText(text)))

\* |A \cap B| / |A \cup B| >= num / den
JaccardAtLeast(A, B, num, den) ==
    (A \cup B) # {} /\ Cardinality(A \cap B) * den >= num * Cardinality(A \cup B)

\* C17 as stated: isLoopingFinal rejects a final exactly when it has at least
\* 8 normalized words and the Jaccard similarity of its word set and the word
\* set of some entry of the recent finals is at least 0.9.
C17_LoopingIsJaccard ==
    lPhase = "done" =>
        (lOut <=>
            /\ Len(SplitWords(normalizeText(lIncoming))) >= LoopMinWords
            /\ \E i \in DOMAIN lRecent :
                   JaccardAtLeast(WordSet(lIncoming), WordSet(lRecent[i]), 9, 10))

\* |A \cap B| / max(|A|, |B|) >= num / den
OverlapAtLeast(A, B, num, den) ==
    /\ A # {} /\ B # {}
    /\ Cardinality(A \cap B) * den >= num * Max(Cardinality(A), Cardinality(B))

\* C17: isLoopingFinal rejects a final exactly when its normalized text has
\* at least 8 words and, for some entry of the recent finals, the number of
\* words the two word sets share is at least 0.9 of the size of the larger
\* set.
C17_LoopingIsOverlapOfLarger ==
    lPhase = "done" =>
        (lOut <=>
            /\ Len(SplitWords(normalizeText(lIncoming))) >= LoopMinWords
            /\ \E i \in DOMAIN lRecent :
                   OverlapAtLeast(WordSet(lIncoming), WordSet(lRecent[i]), 9, 10))

\* a final is rejected whose Jaccard similarity to the entry is below 0.9
C17_Witness ==
    /\ lPhase = "done"
    /\ lOut
    /\ Len(lRecent) = 1
    /\ ~JaccardAtLeast(WordSet(lIncoming), WordSet(lRecent[1]), 9, 10)

-----------------------------------------------------------------------------
(* A running session that receives finals made of words already spoken *)

\* a sentence of eight words, and finals that reuse its words in another
\* order: six of six, five of five, six of seven and five of six words
TailFragments ==
    { <<"a", " ", "b", " ", "c", " ", "d", " ", "e", " ", "f", " ", "g", " ", "h">>,
      <<"f", " ", "e", " ", "d", " ", "c", " ", "b", " ", "a">>,
      <<"e", " ", "d", " ", "c", " ", "b", " ", "a">>,
      <<"f", " ", "e", " ", "d", " ", "c", " ", "b", " ", "a", " ", "k">>,
      <<"e", " ", "d", " ", "c", " ", "b", " ", "a", " ", "k">> }

TailMessages ==
    { [is_final |-> TRUE, transcript |-> t, words |-> NoWords] : t \in TailFragments }

\* the state startASR leaves once the socket and the audio graph exist
TailInit ==
    /\ transcriptRef = <<>> /\ wordConfidencesRef = <<>>
    /\ partialRef = <<>> /\ partialTranscript = <<>>
    /\ lastFinalRef = <<>> /\ lastPartialRef = <<>> /\ recentFinalsRef = <<>>
    /\ pausedRef = FALSE /\ eofSentRef = FALSE /\ inUtteranceRef = FALSE
    /\ wsRef = "open" /\ connectingRef = FALSE /\ startPending = FALSE
    /\ processorRef = TRUE
    /\ msgCount = 0
    /\ hist = Did("connected")
    /\ mergeIdle /\ scoreIdle /\ loopIdle /\ fnIdle /\ connIdle

TailNext == \E msg \in TailMessages : OnMessage(msg)

TailSpec == TailInit /\ [][TailNext]_vars

\* at least num/den of the distinct normalized words of incoming appear in
\* the tail window of existing
TailShareAtLeast(existing, incoming, num, den) ==
    LET current == normalizeText(existing)
        next == normalizeText(incoming)
        tail == TakeLast(current, Max(TailChars, Len(next) * 2))
        nextWords == SeqToSet(SplitWords(next))
        tailWords == SeqToSet(SplitWords(tail))
    IN  /\ current # <<>>
        /\ nextWords # {}
        /\ Cardinality(nextWords \cap tailWords) * den >= num * Cardinality(nextWords)

DistinctWords(text) == Cardinality(SeqToSet(SplitWords(normalizeText(text))))

\* C18 as stated: a final is rejected, the committed transcript unchanged,
\* whenever at least 85% of its distinct normalized words appear in the tail
\* window of the committed transcript, whatever their number.
C18_TailShareRejectsAnyFinal ==
    [][(/\ hist'.op = "message" /\ hist'.msg.is_final
        /\ TailShareAtLeast(transcriptRef, hist'.msg.transcript, 85, 100))
          => UNCHANGED transcriptRef]_vars

\* C18: a final of at least 6 distinct normalized words is rejected, the
\* committed transcript and wordConfidences unchanged, whenever at least 85%
\* of those words appear in the tail window of the committed transcript.
C18_TailShareRejectsLongFinal ==
    [][(/\ hist'.op = "message" /\ hist'.msg.is_final
        /\ DistinctWords(hist'.msg.transcript) >= RepeatMinWords
        /\ TailShareAtLeast(transcriptRef, hist'.msg.transcript, 85, 100))
          => UNCHANGED <<transcriptRef, wordConfidencesRef>>]_vars

\* a final of six words, all of them in the transcript but in another order,
\* was handled after a different final, and the transcript still is the
\* sentence of eight words
C18_Witness ==
    /\ hist.op = "message" /\ hist.msg.is_final
    /\ DistinctWords(hist.msg.transcript) = RepeatMinWords
    /\ TailShareAtLeast(transcriptRef, hist.msg.transcript, 85, 100)
    /\ ~includes(normalizeText(transcriptRef), normalizeText(hist.msg.transcript))
    /\ Len(tokenize(transcriptRef)) = 8
    /\ lastFinalRef # trim(hist.msg.transcript)
    /\ msgCount = 2

-----------------------------------------------------------------------------
(* The backup revision of the hook: commitPendingPartial *)

\* backup ws.onmessage, final branch: the only dedupe is against the last
\* final, and only when the merge would not grow the transcript
BackupOnFinal(msg) ==
    LET finalText == trim(msg.transcript)
        mergedCandidate == mergeTranscript(transcriptRef, finalText)
        mergedNormalized == normalizeText(mergedCandidate)
        growsTranscript ==
            /\ mergedNormalized # <<>>
            /\ Len(mergedNormalized) > Len(normalizeText(transcriptRef))
    IN  IF finalText = <<>> THEN
            /\ partialRef' = <<>>
            /\ partialTranscript' = <<>>
            /\ UNCHANGED <<dataVars, lastPartialRef>>
        ELSE IF ~growsTranscript /\ isSameNormalized(finalText, lastFinalRef) THEN
            /\ partialTranscript' = <<>>
            /\ UNCHANGED <<dataVars, lastPartialRef, partialRef>>
        ELSE
            /\ lastFinalRef' = finalText
            /\ recentFinalsRef' = pushRecentFinal(recentFinalsRef, finalText)
            /\ lastPartialRef' = <<>>
            /\ transcriptRef' = mergedCandidate
            /\ wordConfidencesRef' =
                   mergeWordConfidences(transcriptRef, wordConfidencesRef,
                                        extractWordConfidences(msg.words, finalText))
            /\ partialRef' = <<>>
            /\ partialTranscript' = <<>>

\* backup ws.onmessage, partial branch
BackupOnPartial(msg) ==
    LET partialText == trim(msg.transcript)
    IN  IF partialText = <<>> THEN
            /\ lastPartialRef' = <<>>
            /\ partialRef' = <<>>
            /\ partialTranscript' = <<>>
            /\ UNCHANGED dataVars
        ELSE IF \/ isSameNormalized(partialText, lastPartialRef)
                \/ containsNormalized(transcriptRef, partialText) THEN
            UNCHANGED <<dataVars, lastPartialRef, partialRef, partialTranscript>>
        ELSE
            /\ lastPartialRef' = partialText
            /\ partialRef' = partialText
            /\ partialTranscript' = partialText
            /\ UNCHANGED dataVars

\* backup ws.onmessage
BackupOnMessage(msg) ==
    /\ wsRef = "open"
    /\ msgCount < MaxMessages
    /\ msgCount' = msgCount + 1
    /\ hist' = [op |-> "message", msg |-> msg, repeat |-> FALSE]
    /\ IF msg.is_final THEN BackupOnFinal(msg) ELSE BackupOnPartial(msg)
    /\ UNCHANGED controlVars
    /\ UNCHANGED harnessVars

\* variant: the committed partial stays pending
CommitPendingPartial_KeepsPartial ==
    LET pendingPartial == trim(partialRef)
    IN  /\ IF pendingPartial = <<>> THEN
               /\ hist' = [op |-> "commit", msg |-> NoMessage,
                           repeat |-> (hist.op = "commit"),
                           prior |-> (hist.op = "commit" /\ hist.result), result |-> FALSE]
               /\ UNCHANGED <<dataVars, lastPartialRef, partialRef, partialTranscript>>
           ELSE IF containsNormalized(transcriptRef, pendingPartial) THEN
               /\ partialRef' = <<>>
               /\ partialTranscript' = <<>>
               /\ hist' = [op |-> "commit", msg |-> NoMessage,
                           repeat |-> (hist.op = "commit"),
                           prior |-> (hist.op = "commit" /\ hist.result), result |-> FALSE]
               /\ UNCHANGED <<dataVars, lastPartialRef>>
           ELSE
               /\ transcriptRef' = mergeTranscript(transcriptRef, pendingPartial)
               /\ wordConfidencesRef' =
                      mergeWordConfidences(transcriptRef, wordConfidencesRef,
                                           NullScored(pendingPartial))
               /\ lastFinalRef' = pendingPartial
               /\ recentFinalsRef' = pushRecentFinal(recentFinalsRef, pendingPartial)
               /\ lastPartialRef' = <<>>
               /\ partialTranscript' = <<>>
               /\ hist' = [op |-> "commit", msg |-> NoMessage,
                           repeat |-> (hist.op = "commit"),
                           prior |-> (hist.op = "commit" /\ hist.result), result |-> TRUE]
               /\ UNCHANGED partialRef
        /\ UNCHANGED <<controlVars, msgCount>>
        /\ UNCHANGED harnessVars

\* commitPendingPartial; hist.result is the value it returns, hist.prior the
\* value returned by the call directly before it, if there was one
CommitPendingPartial ==
    LET pendingPartial == trim(partialRef)
    IN  /\ IF pendingPartial = <<>> THEN
               /\ hist' = [op |-> "commit", msg |-> NoMessage,
                           repeat |-> (hist.op = "commit"),
                           prior |-> (hist.op = "commit" /\ hist.result), result |-> FALSE]
               /\ UNCHANGED <<dataVars, lastPartialRef, partialRef, partialTranscript>>
           ELSE IF containsNormalized(transcriptRef, pendingPartial) THEN
               /\ partialRef' = <<>>
               /\ partialTranscript' = <<>>
               /\ hist' = [op |-> "commit", msg |-> NoMessage,
                           repeat |-> (hist.op = "commit"),
                           prior |-> (hist.op = "commit" /\ hist.result), result |-> FALSE]
               /\ UNCHANGED <<dataVars, lastPartialRef>>
           ELSE
               /\ transcriptRef' = mergeTranscript(transcriptRef, pendingPartial)
               /\ wordConfidencesRef' =
                      mergeWordConfidences(transcriptRef, wordConfidencesRef,
                                           NullScored(pendingPartial))
               /\ lastFinalRef' = pendingPartial
               /\ recentFinalsRef' = pushRecentFinal(recentFinalsRef, pendingPartial)
               /\ lastPartialRef' = <<>>
               /\ partialRef' = <<>>
               /\ partialTranscript' = <<>>
               /\ hist' = [op |-> "commit", msg |-> NoMessage,
                           repeat |-> (hist.op = "commit"),
                           prior |-> (hist.op = "commit" /\ hist.result), result |-> TRUE]
        /\ UNCHANGED <<controlVars, msgCount>>
        /\ UNCHANGED harnessVars

\* the backup hook once startASR has opened the socket
BackupInit == TailInit

BackupNext ==
    \/ \E msg \in Messages : BackupOnMessage(msg)
    \/ CommitPendingPartial

BackupSpec == BackupInit /\ [][BackupNext]_vars

\* C20: commitPendingPartial with nothing pending changes no state and
\* returns false; a call that directly follows another call changes no state
\* either, so two calls in a row leave the state one call leaves.
C20_CommitIsIdempotent ==
    [][hist'.op = "commit"
          => /\ trim(partialRef) = <<>>
                  => /\ ~hist'.result
                     /\ UNCHANGED <<transcriptRef, wordConfidencesRef, partialRef,
                                    partialTranscript, lastFinalRef, lastPartialRef,
                                    recentFinalsRef>>
             /\ hist.op = "commit"
                  => /\ ~hist'.result
                     /\ UNCHANGED <<transcriptRef, wordConfidencesRef, partialRef,
                                    partialTranscript, lastFinalRef, lastPartialRef,
                                    recentFinalsRef>>]_vars

\* commitPendingPartial has run twice in a row, the first call having
\* promoted a pending partial into a transcript that held text before
C20_Witness ==
    /\ hist.op = "commit" /\ hist.repeat /\ hist.prior /\ ~hist.result
    /\ partialRef = <<>>
    /\ Len(recentFinalsRef) = 2
    /\ transcriptRef # lastFinalRef

-----------------------------------------------------------------------------
(* pickPhonemeHint applied to bounded mismatch lists *)

\* reference and hypothesis words: one or two per rule pattern, a word that
\* meets two patterns, and a word that meets none
HintRefWords ==
    { <<"t", "h", "e">>, <<"v", "e", "t">>, <<"l", "o", "t">>, <<"s", "i", "n", "g">>,
      <<"t", "h", "i", "n", "g">>, <<"c", "a", "t">> }
HintHypWords ==
    { <<"d", "e">>, <<"w", "e", "t">>, <<"r", "o", "t">>, <<"s", "i", "n">>,
      <<"d", "i", "n">>, <<"c", "a", "t">> }

\* substitutions carry both words, deletions only ref, insertions only hyp
HintMismatches ==
    {[ref |-> r, hyp |-> h] : r \in HintRefWords, h \in HintHypWords}
        \cup {[ref |-> r] : r \in HintRefWords}
        \cup {[hyp |-> h] : h \in HintHypWords}

MaxMismatches == 2

RECURSIVE MismatchListsUpTo(_)
MismatchListsUpTo(n) ==
    IF n = 0 THEN {<<>>}
    ELSE LET shorter == MismatchListsUpTo(n - 1) IN
         shorter \cup {Append(l, m) : l \in {t \in shorter : Len(t) = n - 1},
                                      m \in HintMismatches}

HintInit ==
    /\ hMismatches \in MismatchListsUpTo(MaxMismatches)
    /\ hOut = NoHints
    /\ hPhase = "ready"
    /\ hookIdle /\ mergeIdle /\ scoreIdle /\ loopIdle /\ confIdle /\ extractIdle /\ connIdle

ApplyHint ==
    /\ hPhase = "ready"
    /\ hOut' = [strict |-> pickPhonemeHint(hMismatches),
                simple |-> pickPhonemeHintSimple(hMismatches)]
    /\ hPhase' = "done"
    /\ UNCHANGED <<hMismatches, hookVars, connVars, mergeVars, scoreVars, loopVars,
                   confVars, extractVars>>

HintNext == ApplyHint

HintSpec == HintInit /\ [][HintNext]_vars

\* some rule of the table matches some mismatch of the list
SomeRuleMatches(mismatches) ==
    \E i \in DOMAIN mismatches : \E k \in DOMAIN phonemeRules :
        /\ HasRef(mismatches[i]) /\ HasHyp(mismatches[i])
        /\ RegExpTest(phonemeRules[k].ref, mismatches[i].ref)
        /\ RegExpTest(phonemeRules[k].hyp, mismatches[i].hyp)

\* the contract C21 states for a hint returned for the list hMismatches
NullOnlyWhenEmpty(hint) ==
    /\ hint = NullHint <=> hMismatches = <<>>
    /\ (hMismatches # <<>> /\ ~SomeRuleMatches(hMismatches)) => hint = GenericTip

\* C21: pickPhonemeHint returns null exactly when the mismatch list is empty,
\* and the generic encouragement string when there are mismatches but no rule
\* of the table matches any of them (stated for both revisions of the
\* function).
C21_NullOnlyWhenNoMismatch ==
    hPhase = "done" => NullOnlyWhenEmpty(hOut.strict) /\ NullOnlyWhenEmpty(hOut.simple)

\* C22: when rules match several mismatch pairs, pickPhonemeHint returns the
\* tip of the rule that comes first in the rule table among all rules matching
\* any mismatch pair, whatever the order of the mismatches.
C22_TableOrderIsTieBreak ==
    (hPhase = "done" /\ SomeRuleMatches(hMismatches))
        => /\ hOut.strict = HintByRuleFrom(hMismatches, 1, NullHint)
           /\ hOut.simple = HintByRuleFrom(hMismatches, 1, GenericTip)

-----------------------------------------------------------------------------
(* normalizeConfidence applied to bounded confidences, once and again *)

\* numbers in hundredths from -MaxHundredths/100 to MaxHundredths/100, whole
\* numbers on the 0-100 scale from 2 to MaxPercent, and the values that are
\* not a number
MaxHundredths == 150
MaxPercent == 120

RawConfidences ==
    {Null, Undefined, NaN, NotANumber}
        \cup {Num(k * (ConfScale \div 100)) : k \in (0 - MaxHundredths)..MaxHundredths}
        \cup {Num(p * ConfScale) : p \in 2..MaxPercent}

ConfInit ==
    /\ cIn \in RawConfidences
    /\ cOut = NoConfidences
    /\ cPhase = "ready"
    /\ hookIdle /\ mergeIdle /\ scoreIdle /\ loopIdle /\ hintIdle /\ extractIdle /\ connIdle

\* both normalizeConfidence functions applied to the raw value
ApplyNormalize ==
    /\ cPhase = "ready"
    /\ cOut' = [cOut EXCEPT !.hook = normalizeConfidence(cIn),
                            !.score = scoreNormalizeConfidence(cIn)]
    /\ cPhase' = "once"
    /\ UNCHANGED <<cIn, hookVars, connVars, mergeVars, scoreVars, loopVars, hintVars, extractVars>>

\* each function applied to its own result
ApplyNormalizeAgain ==
    /\ cPhase = "once"
    /\ cOut' = [cOut EXCEPT !.hookAgain = normalizeConfidence(cOut.hook),
                            !.scoreAgain = scoreNormalizeConfidence(cOut.score)]
    /\ cPhase' = "twice"
    /\ UNCHANGED <<cIn, hookVars, connVars, mergeVars, scoreVars, loopVars, hintVars, extractVars>>

ConfNext == ApplyNormalize \/ ApplyNormalizeAgain

ConfSpec == ConfInit /\ [][ConfNext]_vars

\* what C23 states of the result out for the raw value cIn
NormalizedAsStated(out) ==
    /\ (IsNum(cIn) /\ cIn[2] > ConfScale)
          => /\ IsNum(out)
             /\ IF cIn[2] <= 100 * ConfScale THEN out[2] * 100 = cIn[2]
                ELSE out[2] = ConfScale
    /\ (IsNum(cIn) /\ cIn[2] <= ConfScale)
          => /\ IsNum(out)
             /\ out[2] = (IF cIn[2] < 0 THEN 0 ELSE cIn[2])
    /\ ~IsNum(cIn) => out = Null
    /\ out = Null \/ (IsNum(out) /\ out[2] >= 0 /\ out[2] <= ConfScale)

\* C23: normalizeConfidence maps a number greater than 1 to value/100 clamped
\* to [0,1], a number up to 1 to itself clamped to [0,1], and a missing, null,
\* non-numeric or NaN confidence to null, never to 0; the result is always
\* null or within [0,1], and applying it twice gives what applying it once
\* gives.
C23_NormalizeConfidence ==
    /\ cPhase \in {"once", "twice"}
          => NormalizedAsStated(cOut.hook) /\ NormalizedAsStated(cOut.score)
    /\ cPhase = "twice"
          => cOut.hookAgain = cOut.hook /\ cOut.scoreAgain = cOut.score

\* 95 on the 0-100 scale has been normalized to 0.95, twice
C23_Witness ==
    /\ cPhase = "twice"
    /\ cIn = Num(95 * ConfScale)
    /\ cOut.hook = Num(9500) /\ cOut.hookAgain = Num(9500)
    /\ cOut.score = Num(9500) /\ cOut.scoreAgain = Num(9500)

-----------------------------------------------------------------------------
(* extractWordConfidences applied to bounded words arrays and final texts *)

\* entries of a words array: a scored word, punctuation only, an empty word,
\* an entry that names its word in text, an entry with neither word nor
\* text, and an entry holding two words
WordEntries ==
    { [word |-> <<"a">>, confidence |-> Num(9000)],
      [word |-> <<".">>, confidence |-> Num(5000)],
      [word |-> <<>>, confidence |-> Null],
      [text |-> <<"b">>, confidence |-> Num(95 * ConfScale)],
      [confidence |-> Num(9000)],
      [word |-> <<"b", " ", "a">>, confidence |-> Null] }

MaxWordEntries == 2

RECURSIVE WordEntryListsUpTo(_)
WordEntryListsUpTo(n) ==
    IF n = 0 THEN {<<>>}
    ELSE LET shorter == WordEntryListsUpTo(n - 1) IN
         shorter \cup {Append(l, e) : l \in {t \in shorter : Len(t) = n - 1},
                                      e \in WordEntries}

\* the words field of a final: absent, or an array of up to MaxWordEntries
WordsFields ==
    {NoWords} \cup {[present |-> TRUE, list |-> l] : l \in WordEntryListsUpTo(MaxWordEntries)}

ExtractInit ==
    /\ eWords \in WordsFields
    /\ eText \in Fragments
    /\ eOut = <<>>
    /\ ePhase = "ready"
    /\ hookIdle /\ mergeIdle /\ scoreIdle /\ loopIdle /\ hintIdle /\ confIdle /\ connIdle

ApplyExtract ==
    /\ ePhase = "ready"
    /\ eOut' = extractWordConfidences(eWords, eText)
    /\ ePhase' = "done"
    /\ UNCHANGED <<eWords, eText, hookVars, connVars, mergeVars, scoreVars, loopVars,
                   hintVars, confVars>>

ExtractNext == ApplyExtract

ExtractSpec == ExtractInit /\ [][ExtractNext]_vars

\* the entry names no word that has a token
YieldsNoToken(entry) ==
    IF "word" \in DOMAIN entry THEN tokenize(entry.word) = <<>>
    ELSE IF "text" \in DOMAIN entry THEN tokenize(entry.text) = <<>>
    ELSE TRUE

\* the final carries no words list, an empty one, or one without tokens
NoUsableWords ==
    \/ ~eWords.present
    \/ \A k \in DOMAIN eWords.list : YieldsNoToken(eWords.list[k])

\* C24: when a final carries no words list, an empty one, or one whose
\* entries yield no tokens, extractWordConfidences returns exactly one entry
\* per token of the final text, in order, each with unknown confidence.
C24_FallbackCoversEveryToken ==
    (ePhase = "done" /\ NoUsableWords)
        => /\ Len(eOut) = Len(tokenize(eText))
           /\ \A k \in DOMAIN eOut :
                 /\ eOut[k].word = tokenize(eText)[k]
                 /\ eOut[k].confidence = Null

\* a words array of two entries without tokens, and a final text of two words
C24_Witness ==
    /\ ePhase = "done"
    /\ eWords.present /\ Len(eWords.list) = 2
    /\ NoUsableWords
    /\ Len(tokenize(eText)) = 2
    /\ Len(eOut) = 2

-----------------------------------------------------------------------------
(* A running session that accepts more finals than the history holds *)

MaxHistoryFinals == 14

\* the k-th final of the session is the k-th letter as a one-word fragment,
\* or a fragment of punctuation only
HistoryMessages(k) ==
    { [is_final |-> TRUE, transcript |-> t, words |-> NoWords] :
        t \in { <<LowerLetters[k]>>, <<".">> } }

OnHistoryMessage ==
    \E msg \in HistoryMessages(msgCount + 1) : Deliver(msg, MaxHistoryFinals)

HistoryInit == TailInit

HistoryNext == OnHistoryMessage

HistorySpec == HistoryInit /\ [][HistoryNext]_vars

\* the handler accepts the final msg in the current state
AcceptsFinal(msg) ==
    /\ msg.is_final
    /\ ~pausedRef /\ ~eofSentRef
    /\ trim(msg.transcript) # <<>>
    /\ PassesDedupeGuards(trim(msg.transcript))

\* the last RecentFinalsCap entries of a history
KeepRecent(history) ==
    IF Len(history) > RecentFinalsCap THEN TakeLast(history, RecentFinalsCap) ELSE history

-----------------------------------------------------------------------------
(* A running session in which the recognizer sends accepted finals again *)

\* two fragments that overlap in one character, a one-letter fragment, and
\* punctuation only
ResendFragments == { <<"a", "b">>, <<"b", "c">>, <<"c">>, <<".">> }

ResendMessages ==
    { [is_final |-> TRUE, transcript |-> t, words |-> NoWords] : t \in ResendFragments }

MaxResendMessages == 4

OnResendMessage == \E msg \in ResendMessages : Deliver(msg, MaxResendMessages)

ResendInit == TailInit

ResendNext == OnResendMessage

ResendSpec == ResendInit /\ [][ResendNext]_vars

\* a final with the normalized text of msg was accepted earlier in the
\* session: texts that are not empty are kept in recentFinalsRef (the session
\* is shorter than the history); the only fragment whose normalized text is
\* empty is ".", and the transcript holds a "." exactly when one was accepted
AcceptedEarlier(msg) ==
    LET n == normalizeText(msg.transcript)
    IN  IF n # <<>> THEN \E k \in DOMAIN recentFinalsRef : recentFinalsRef[k] = n
        ELSE includes(transcriptRef, trim(msg.transcript))

-----------------------------------------------------------------------------
(* The hook useASR with its sockets, its awaits and its endpointing counters *)
(* in full: every WebSocket the hook creates is kept with its readyState,    *)
(* startASR and ensureWsOpen are split at their awaits, and audio frames     *)
(* arrive one by one. No recognition message is delivered here.              *)

SPEECH_FRAMES_TO_START == 2
SILENCE_FRAMES_TO_EOF == 10
SILENCE_FRAMES_CLEAR_PARTIAL == 8

\* sockets the hook may create in one run
MaxSockets == 3

\* silent frames in a row that are followed
MaxSilentRun == 12

\* a frame's rms against the two thresholds of its call: at or above
\* speechStartThreshold, between the two, below speechEndThreshold
FrameLevels == {"speech", "between", "silent"}

pureVars == <<mergeVars, scoreVars, loopVars, fnVars>>
endpointVars == <<speechFramesRef, silenceFramesRef, utteranceStartedAtRef, silentRun>>

\* readyState OPEN or CONNECTING
Alive(state) == state \in {"connecting", "open"}

AliveSockets == {i \in 1..Len(sockets) : Alive(sockets[i])}

\* WebSocket.close()
CloseSocket(state) == IF Alive(state) THEN "closing" ELSE state

\* closeWs: the sockets once the socket wsRef holds (ws, 0 for null) is closed
closeWs(all, ws) == IF ws = 0 THEN all ELSE [all EXCEPT ![ws] = CloseSocket(@)]

\* wsRef.current := ws
HoldSocket(all, ws) ==
    /\ sockets' = all
    /\ wsId' = ws
    /\ wsRef' = IF ws = 0 THEN "none" ELSE "open"

\* connectWs: closeWs(false), new WebSocket, wsRef.current = ws
connectWs == HoldSocket(Append(closeWs(sockets, wsId), "connecting"), Len(sockets) + 1)

\* variant: the close event of any socket clears wsRef
RefAfterClose_Any(ws) == 0

\* ws.onclose: if (wsRef.current === ws) wsRef.current = null
RefAfterClose(ws) == IF wsId = ws THEN 0 ELSE wsId

\* the refs startASR, stopASR, resumeASR and resetTranscript reset
ResetEndpointing ==
    /\ silenceFramesRef' = 0 /\ speechFramesRef' = 0
    /\ inUtteranceRef' = FALSE /\ eofSentRef' = FALSE
    /\ utteranceStartedAtRef' = 0
    /\ silentRun' = 0

\* endUtterance past its guard, called when the hook holds socket ws of all
endUtterance(all, ws) ==
    /\ eofSentRef' = TRUE
    /\ partialTranscript' = <<>>
    /\ HoldSocket(closeWs(all, ws), 0)
    /\ inUtteranceRef' = FALSE
    /\ silenceFramesRef' = 0 /\ speechFramesRef' = 0
    /\ utteranceStartedAtRef' = 0
    /\ silentRun' = 0

\* startASR up to await fetchToken(); one call is in flight at a time
startASR ==
    /\ ~startPending /\ ~audioClosing
    /\ transcriptRef' = <<>> /\ wordConfidencesRef' = <<>>
    /\ partialRef' = <<>> /\ partialTranscript' = <<>>
    /\ lastFinalRef' = <<>> /\ lastPartialRef' = <<>> /\ recentFinalsRef' = <<>>
    /\ ResetEndpointing
    /\ pausedRef' = FALSE
    /\ startPending' = TRUE
    /\ stopped' = FALSE
    /\ hist' = Did("start")
    /\ UNCHANGED <<wsRef, sockets, wsId, connectingRef, processorRef, frameAwaiting,
                   audioClosing, msgCount>>
    /\ UNCHANGED pureVars

\* startASR from the token to the audio graph, or to await audioCtx.close()
\* when a graph exists
startASRToken ==
    /\ startPending
    /\ Len(sockets) < MaxSockets
    /\ startPending' = FALSE
    /\ connectWs
    /\ processorRef' = ~processorRef
    /\ audioClosing' = processorRef
    /\ hist' = Did("connected")
    /\ UNCHANGED <<dataVars, lastPartialRef, partialRef, partialTranscript, pausedRef,
                   eofSentRef, inUtteranceRef, connectingRef, msgCount>>
    /\ UNCHANGED <<endpointVars, frameAwaiting, stopped>>
    /\ UNCHANGED pureVars

\* startASR after audioCtx.close(): the new audio graph
startASRGraph ==
    /\ audioClosing
    /\ audioClosing' = FALSE
    /\ processorRef' = TRUE
    /\ hist' = Did("graph")
    /\ UNCHANGED <<dataVars, lastPartialRef, partialRef, partialTranscript, pausedRef,
                   eofSentRef, inUtteranceRef, wsRef, connectingRef, startPending,
                   msgCount>>
    /\ UNCHANGED <<sockets, wsId, endpointVars, frameAwaiting, stopped>>
    /\ UNCHANGED pureVars

\* startASR when fetchToken throws
startASRFails ==
    /\ startPending
    /\ startPending' = FALSE
    /\ hist' = Did("start failed")
    /\ UNCHANGED <<dataVars, lastPartialRef, partialRef, partialTranscript, pausedRef,
                   eofSentRef, inUtteranceRef, wsRef, connectingRef, processorRef,
                   msgCount>>
    /\ UNCHANGED connVars
    /\ UNCHANGED pureVars

\* processor.onaudioprocess for one frame, up to await ensureWsOpen() when
\* ensureWsOpen has to wait for a token. timedOut: one of the two age limits
\* (MAX_UTTERANCE_MS, NO_TRANSCRIPT_TIMEOUT_MS) is exceeded at this frame.
onaudioprocess(level, timedOut) ==
    /\ processorRef /\ ~pausedRef
    /\ hist' = Did("frame")
    /\ IF ~inUtteranceRef THEN
           LET speech == IF level = "speech" THEN speechFramesRef + 1 ELSE 0
           IN  /\ ~timedOut
               /\ IF speech < SPEECH_FRAMES_TO_START THEN
                      /\ speechFramesRef' = speech
                      /\ UNCHANGED <<inUtteranceRef, eofSentRef, silenceFramesRef,
                                     utteranceStartedAtRef, silentRun, connectingRef,
                                     frameAwaiting>>
                  ELSE
                      /\ inUtteranceRef' = TRUE
                      /\ eofSentRef' = FALSE
                      /\ silenceFramesRef' = 0
                      /\ speechFramesRef' = 0
                      /\ utteranceStartedAtRef' = 1
                      /\ silentRun' = 0
                      \* ensureWsOpen: returns at once with a live socket, else
                      \* waits for the pending connection or starts one
                      /\ IF wsId # 0 /\ Alive(sockets[wsId]) THEN
                             UNCHANGED <<connectingRef, frameAwaiting>>
                         ELSE
                             /\ connectingRef' = TRUE
                             /\ frameAwaiting' = TRUE
               /\ UNCHANGED <<partialTranscript, sockets, wsId, wsRef>>
       ELSE IF level = "silent" THEN
           LET silence == silenceFramesRef + 1
           IN  /\ ~timedOut
               /\ silentRun < MaxSilentRun
               /\ IF silence > SILENCE_FRAMES_TO_EOF /\ ~eofSentRef THEN
                      endUtterance(sockets, wsId)
                  ELSE
                      /\ silenceFramesRef' = silence
                      /\ partialTranscript' =
                             IF silence > SILENCE_FRAMES_CLEAR_PARTIAL THEN <<>>
                             ELSE partialTranscript
                      /\ silentRun' = silentRun + 1
                      /\ UNCHANGED <<inUtteranceRef, eofSentRef, speechFramesRef,
                                     utteranceStartedAtRef, sockets, wsId, wsRef>>
               /\ UNCHANGED <<connectingRef, frameAwaiting>>
       ELSE
           /\ timedOut => utteranceStartedAtRef > 0
           /\ IF timedOut /\ ~eofSentRef THEN
                  endUtterance(sockets, wsId)
              ELSE
                  /\ silenceFramesRef' = 0
                  /\ silentRun' = 0
                  /\ UNCHANGED <<inUtteranceRef, eofSentRef, speechFramesRef,
                                 utteranceStartedAtRef, partialTranscript, sockets, wsId,
                                 wsRef>>
           /\ UNCHANGED <<connectingRef, frameAwaiting>>
    /\ UNCHANGED <<dataVars, lastPartialRef, partialRef, pausedRef, startPending,
                   processorRef, msgCount>>
    /\ UNCHANGED <<audioClosing, stopped>>
    /\ UNCHANGED pureVars

\* ensureWsOpen from the token on: connectWs, connectingRef cleared, and then
\* the onaudioprocess calls that were suspended at await ensureWsOpen() run
\* to their end, in the same turn of the event loop. Each carries a frame at
\* or above both thresholds, so each takes the path of lines 961-982.
ensureWsOpenToken(timedOut) ==
    /\ connectingRef
    /\ Len(sockets) < MaxSockets
    /\ connectingRef' = FALSE
    /\ frameAwaiting' = FALSE
    /\ hist' = Did("reconnected")
    /\ timedOut => frameAwaiting /\ utteranceStartedAtRef > 0
    /\ IF ~frameAwaiting THEN
           /\ connectWs
           /\ UNCHANGED <<endpointVars, inUtteranceRef, eofSentRef, partialTranscript>>
       ELSE IF timedOut /\ ~eofSentRef THEN
           endUtterance(Append(closeWs(sockets, wsId), "connecting"), Len(sockets) + 1)
       ELSE
           /\ connectWs
           /\ silenceFramesRef' = 0
           /\ UNCHANGED <<speechFramesRef, utteranceStartedAtRef, silentRun,
                          inUtteranceRef, eofSentRef, partialTranscript>>
    /\ UNCHANGED <<dataVars, lastPartialRef, partialRef, pausedRef, startPending,
                   processorRef, msgCount>>
    /\ UNCHANGED <<audioClosing, stopped>>
    /\ UNCHANGED pureVars

\* ensureWsOpen when fetchToken throws: the suspended calls end with it
ensureWsOpenFails ==
    /\ connectingRef
    /\ connectingRef' = FALSE
    /\ frameAwaiting' = FALSE
    /\ hist' = Did("reconnect failed")
    /\ UNCHANGED <<dataVars, lastPartialRef, partialRef, partialTranscript, pausedRef,
                   eofSentRef, inUtteranceRef, wsRef, startPending, processorRef,
                   msgCount>>
    /\ UNCHANGED <<sockets, wsId, endpointVars, audioClosing, stopped>>
    /\ UNCHANGED pureVars

\* stopASR
stopASR ==
    /\ pausedRef' = FALSE
    /\ partialRef' = <<>>
    /\ HoldSocket(closeWs(sockets, wsId), 0)
    /\ processorRef' = FALSE
    /\ ResetEndpointing
    /\ stopped' = TRUE
    /\ hist' = Did("stop")
    /\ UNCHANGED <<dataVars, lastPartialRef, partialTranscript, connectingRef,
                   startPending, msgCount>>
    /\ UNCHANGED <<frameAwaiting, audioClosing>>
    /\ UNCHANGED pureVars

\* pauseASR
pauseASR ==
    LET pendingPartial == trim(partialRef)
    IN  /\ IF pendingPartial # <<>> THEN
               /\ transcriptRef' = mergeTranscript(transcriptRef, pendingPartial)
               /\ wordConfidencesRef' =
                      mergeWordConfidences(transcriptRef, wordConfidencesRef,
                                           NullScored(pendingPartial))
               /\ lastFinalRef' = pendingPartial
               /\ partialRef' = <<>>
           ELSE UNCHANGED <<transcriptRef, wordConfidencesRef, lastFinalRef, partialRef>>
        /\ pausedRef' = TRUE
        /\ HoldSocket(closeWs(sockets, wsId), 0)
        /\ partialTranscript' = <<>>
        /\ hist' = Did("pause")
        /\ UNCHANGED <<recentFinalsRef, lastPartialRef, eofSentRef, inUtteranceRef,
                       connectingRef, startPending, processorRef, msgCount>>
        /\ UNCHANGED <<endpointVars, frameAwaiting, audioClosing, stopped>>
        /\ UNCHANGED pureVars

\* resumeASR
resumeASR ==
    /\ pausedRef' = FALSE
    /\ ResetEndpointing
    /\ hist' = Did("resume")
    /\ UNCHANGED <<dataVars, lastPartialRef, partialRef, partialTranscript, wsRef,
                   connectingRef, startPending, processorRef, msgCount>>
    /\ UNCHANGED <<sockets, wsId, frameAwaiting, audioClosing, stopped>>
    /\ UNCHANGED pureVars

\* resetTranscript
resetTranscript ==
    /\ transcriptRef' = <<>> /\ wordConfidencesRef' = <<>>
    /\ partialRef' = <<>> /\ partialTranscript' = <<>>
    /\ lastFinalRef' = <<>> /\ lastPartialRef' = <<>> /\ recentFinalsRef' = <<>>
    /\ ResetEndpointing
    /\ hist' = Did("reset")
    /\ UNCHANGED <<pausedRef, wsRef, connectingRef, startPending, processorRef,
                   msgCount>>
    /\ UNCHANGED <<sockets, wsId, frameAwaiting, audioClosing, stopped>>
    /\ UNCHANGED pureVars

\* the socket ws completes its handshake: ws.onopen
onopen(ws) ==
    /\ sockets[ws] = "connecting"
    /\ sockets' = [sockets EXCEPT ![ws] = "open"]
    /\ hist' = Did("open")
    /\ UNCHANGED <<dataVars, lastPartialRef, partialRef, partialTranscript, pausedRef,
                   eofSentRef, inUtteranceRef, wsRef, connectingRef, startPending,
                   processorRef, msgCount>>
    /\ UNCHANGED <<wsId, endpointVars, frameAwaiting, audioClosing, stopped>>
    /\ UNCHANGED pureVars

\* the socket ws reaches CLOSED (its close() completes, the server closes it
\* or the connection fails): ws.onclose
onclose(ws) ==
    /\ sockets[ws] # "closed"
    /\ HoldSocket([sockets EXCEPT ![ws] = "closed"], RefAfterClose(ws))
    /\ hist' = Did("close")
    /\ UNCHANGED <<dataVars, lastPartialRef, partialRef, partialTranscript, pausedRef,
                   eofSentRef, inUtteranceRef, connectingRef, startPending,
                   processorRef, msgCount>>
    /\ UNCHANGED <<endpointVars, frameAwaiting, audioClosing, stopped>>
    /\ UNCHANGED pureVars

ConnInit == Init

ConnNext ==
    \/ startASR
    \/ startASRToken
    \/ startASRGraph
    \/ startASRFails
    \/ \E level \in FrameLevels, timedOut \in BOOLEAN : onaudioprocess(level, timedOut)
    \/ \E timedOut \in BOOLEAN : ensureWsOpenToken(timedOut)
    \/ ensureWsOpenFails
    \/ stopASR
    \/ pauseASR
    \/ resumeASR
    \/ resetTranscript
    \/ \E ws \in 1..Len(sockets) : onopen(ws)
    \/ \E ws \in 1..Len(sockets) : onclose(ws)

ConnSpec == ConnInit /\ [][ConnNext]_vars

-----------------------------------------------------------------------------
(* Properties of the sockets, the awaits and the endpointing *)

\* C31: more than SILENCE_FRAMES_TO_EOF silent frames in a row end the
\* utterance in progress: no utterance is still in progress once that many
\* frames in a row fell below the speech-end threshold.
C31_LongSilenceEndsUtterance ==
    inUtteranceRef => silentRun <= SILENCE_FRAMES_TO_EOF

\* C32: at most one socket the hook created is open or connecting, and the
\* close event of a socket the hook no longer holds leaves wsRef alone.
C32_AtMostOneLiveSocket ==
    /\ [](Cardinality(AliveSockets) <= 1)
    /\ [][\A ws \in 1..Len(sockets) :
              (/\ hist'.op = "close"
               /\ sockets[ws] # "closed" /\ sockets'[ws] = "closed"
               /\ ws # wsId)
              => wsId' = wsId]_vars

\* the close event of the first socket arrives while the hook holds the
\* second one, which is open
C32_Witness ==
    /\ hist.op = "close"
    /\ sockets = <<"closed", "open">>
    /\ wsId = 2

\* C33: once stopASR has returned and until startASR is called again, the
\* hook holds no open or connecting socket and no audio graph.
C33_NothingHeldAfterStop ==
    stopped => (AliveSockets = {} /\ ~processorRef)

\* C34: while paused, from pauseASR to resumeASR, the hook holds no open or
\* connecting socket.
C34_NoSocketWhilePaused ==
    pausedRef => AliveSockets = {}

-----------------------------------------------------------------------------
(* A running session whose transcripts carry an apostrophe or an underscore *)

ContractionFragments ==
    { <<"a", "'", "b">>,
      <<"a", "_", "b">>,
      <<"b", " ", "a">>,
      <<"a">> }

\* finals with and without a words array, and partials
ContractionMessages ==
    { [is_final |-> f, transcript |-> t, words |-> NoWords] :
        f \in BOOLEAN, t \in ContractionFragments }
    \cup
    { [is_final |-> TRUE, transcript |-> t, words |-> [present |-> TRUE, list |-> WordsOf(t)]] :
        t \in ContractionFragments }

MaxContractionMessages == 3

OnContractionMessage == \E msg \in ContractionMessages : Deliver(msg, MaxContractionMessages)

ContractionInit == TailInit

ContractionNext == OnContractionMessage

ContractionSpec == ContractionInit /\ [][ContractionNext]_vars

\* C37: the tokenize of the hook, which indexes wordConfidences, and the
\* tokenize of the scorer, which indexes the hypothesis of diffWords, split
\* the committed transcript into the same tokens in the same order.
C37_TokenizersAgree ==
    tokenize(transcriptRef) = scoreTokenize(transcriptRef)
====
